---------------------------- MODULE Spec2Model ----------------------------
(***************************************************************************)
(* Password Mint (src/app.js): deterministic password derivation and the   *)
(* form that drives it.                                                    *)
(*                                                                         *)
(* JavaScript strings are modelled as sequences of one-character strings,  *)
(* so that indexing, case folding, splitting and charCodeAt are computed.  *)
(* 32-bit values are modelled as records [hi, lo] of two 16-bit halves,    *)
(* because the seed of hardenPhrase ranges over 0..2^32-1.                 *)
(***************************************************************************)
EXTENDS Integers, Sequences, FiniteSets, TLC

VARIABLES
    elements,          \* the form: fields, checkboxes and output widgets
    autoClearTimeout,  \* id of the pending auto-clear timer, or NoTimer
    rememberedPhrase,  \* phrase kept in memory, or NoPhrase
    timers,            \* ids of the setTimeout(clearOutput) timers not yet fired or cleared
    calls,             \* activations of generatePassword suspended at await deriveBytes
    cryptoOk,          \* window.crypto.subtle is available
    listening,         \* setupEventListeners has run
    requests,          \* number of derivations started so far
    budget,            \* what the session may still do: [requests, edits]
    marked,            \* one completed generation kept for comparison, or NoGeneration
    last,              \* the generation that completed most recently, or NoGeneration
    clipboard,         \* number of navigator.clipboard.writeText calls still pending
    forgotten,         \* Forget Now and Clear All: how often they ran, and the number of
                       \* derivations started when one last ran; the same for Clear All alone
    probe              \* a direct call of one pure function: its input and result

vars == <<elements, autoClearTimeout, rememberedPhrase, timers, calls,
          cryptoOk, listening, requests, budget, marked, last, clipboard,
          forgotten, probe>>

uiVars == <<elements, autoClearTimeout, rememberedPhrase, timers, calls,
            cryptoOk, listening, requests, budget, marked, last, clipboard,
            forgotten>>

\* null, for each kind of value that can be null
NoTimer == 0                \* autoClearTimeout = null
NoPhrase == <<"null">>      \* rememberedPhrase = null
NoGeneration == [id |-> 0]  \* no generation recorded

-----------------------------------------------------------------------------
(* Characters                                                              *)

UpperLetters == <<"A","B","C","D","E","F","G","H","I","J","K","L","M",
                  "N","O","P","Q","R","S","T","U","V","W","X","Y","Z">>
LowerLetters == <<"a","b","c","d","e","f","g","h","i","j","k","l","m",
                  "n","o","p","q","r","s","t","u","v","w","x","y","z">>

\* The character U+0060, which a TLA+ string literal cannot contain.
Backtick == "BACKTICK"

\* The printable ASCII characters in code order, starting at code 32.
Ascii == <<" ","!","\"","#","$","%","&","'","(",")","*","+",",","-",".","/",
           "0","1","2","3","4","5","6","7","8","9",":",";","<","=",">","?",
           "@","A","B","C","D","E","F","G","H","I","J","K","L","M","N","O",
           "P","Q","R","S","T","U","V","W","X","Y","Z","[","\\","]","^","_",
           Backtick,"a","b","c","d","e","f","g","h","i","j","k","l","m","n","o",
           "p","q","r","s","t","u","v","w","x","y","z","{","|","}","~">>

Min(S) == CHOOSE x \in S : \A y \in S : x <= y
Max(S) == CHOOSE x \in S : \A y \in S : x >= y

\* s.indexOf(c) + 1: the first position of c in seq, 0 when there is none
IndexOf(seq, c) == LET at == {i \in 1..Len(seq) : seq[i] = c}
                   IN  IF at = {} THEN 0 ELSE Min(at)

\* String.prototype.charCodeAt for the characters of the model.
charCodeAt(c) == IF c = "\t" THEN 9
                 ELSE IF c = "\n" THEN 10
                 ELSE IF c = "\f" THEN 12
                 ELSE IF c = "\r" THEN 13
                 ELSE 31 + IndexOf(Ascii, c)

toLowerChar(c) == IF IndexOf(UpperLetters, c) > 0 THEN LowerLetters[IndexOf(UpperLetters, c)] ELSE c
toUpperChar(c) == IF IndexOf(LowerLetters, c) > 0 THEN UpperLetters[IndexOf(LowerLetters, c)] ELSE c

\* toLowerCase() left out
keepCase(s) == s

toLowerCase(s) == [i \in 1..Len(s) |-> toLowerChar(s[i])]
toUpperCase(s) == [i \in 1..Len(s) |-> toUpperChar(s[i])]

\* The characters matched by \s and removed by trim().
IsWhiteSpace(c) == c \in {" ", "\t", "\n", "\f", "\r"}

\* The positions of s that hold a character other than white space.
inked(s) == {i \in 1..Len(s) : ~IsWhiteSpace(s[i])}

\* s.trim()
trim(s) == IF inked(s) = {} THEN <<>> ELSE SubSeq(s, Min(inked(s)), Max(inked(s)))

\* the replace(/\s+/g, ' ') left out
keepWhitespace(s) == s

\* s.replace(/\s+/g, ' '): each run of white space becomes one space
collapseWhitespace(s) ==
    LET kept == SelectSeq([i \in 1..Len(s) |-> i],
                          LAMBDA i : ~IsWhiteSpace(s[i]) \/ i = 1 \/ ~IsWhiteSpace(s[i - 1]))
    IN  [k \in 1..Len(kept) |-> IF IsWhiteSpace(s[kept[k]]) THEN " " ELSE s[kept[k]]]

startsWith(s, p) == Len(s) >= Len(p) /\ SubSeq(s, 1, Len(p)) = p

\* s.replace(/^p/, '') for a literal prefix p
stripPrefix(s, p) == IF startsWith(s, p) THEN SubSeq(s, Len(p) + 1, Len(s)) ELSE s

includes(s, c) == \E i \in 1..Len(s) : s[i] = c

\* s.split(c)[0]
splitFirst(s, c) == IF includes(s, c) THEN SubSeq(s, 1, IndexOf(s, c) - 1) ELSE s

\* s.split(c)
RECURSIVE split(_, _)
split(s, c) == IF includes(s, c)
               THEN <<SubSeq(s, 1, IndexOf(s, c) - 1)>> \o split(SubSeq(s, IndexOf(s, c) + 1, Len(s)), c)
               ELSE <<s>>

\* words.join(c)
RECURSIVE join(_, _)
join(words, c) == IF words = <<>> THEN <<>>
                  ELSE IF Len(words) = 1 THEN words[1]
                  ELSE words[1] \o <<c>> \o join(Tail(words), c)

\* pool.replace(new RegExp(c, 'g'), '')
removeAll(s, c) == SelectSeq(s, LAMBDA x : x # c)

RECURSIVE removeEach(_, _)
removeEach(s, cs) == IF cs = <<>> THEN s ELSE removeEach(removeAll(s, Head(cs)), Tail(cs))

\* The element of a one-element set.  In the loops below the state after the
\* first half of an iteration range is bound to a name before the second half
\* is run on it, so that the iterations are evaluated in program order.
the(S) == CHOOSE x \in S : TRUE

\* What string concatenation makes of the value undefined.
Undefined == <<"u","n","d","e","f","i","n","e","d">>

\* s[i] for a number i, as used in a string concatenation.
charAtIndex(s, i) == IF i >= 0 /\ i < Len(s) THEN <<s[i + 1]>> ELSE Undefined

-----------------------------------------------------------------------------
(* Configuration                                                           *)

SALT_PREFIX == <<"p","a","s","s","w","o","r","d","-","m","i","n","t",":",":","v","1",":",":">>
DERIVED_BYTES == 64
ITERATIONS_standard == 210000
ITERATIONS_high == 400000

CHAR_SETS == [upper   |-> UpperLetters,
              lower   |-> LowerLetters,
              digits  |-> <<"0","1","2","3","4","5","6","7","8","9">>,
              symbols |-> <<"!","@","#","$","%","^","&","*","(",")","-","_","=","+",
                            "[","]","{","}","|",";",":",",",".","<",">","?","/">>]

AMBIGUOUS_CHARS == <<"O","0","I","l","1">>
PROBLEMATIC_CHARS == <<"\"","'"," ","\\",Backtick>>

-----------------------------------------------------------------------------
(* normalizeSite                                                           *)

HttpPrefix == <<"h","t","t","p",":","/","/">>
HttpsPrefix == <<"h","t","t","p","s",":","/","/">>
WwwPrefix == <<"w","w","w",".">>

\* site.replace(/^http:\/\//, ''): the scheme without its optional s
removeHttpOnly(site) == stripPrefix(site, HttpPrefix)

\* site.replace(/^https?:\/\//, '')
removeProtocol(site) == IF startsWith(site, HttpsPrefix) THEN stripPrefix(site, HttpsPrefix)
                        ELSE stripPrefix(site, HttpPrefix)

\* site.split('/')[0] alone: the query, the fragment and the port are kept
hostnameBeforeSlash(site) == splitFirst(site, "/")

hostnameOnly(site) == splitFirst(splitFirst(splitFirst(splitFirst(site, "/"), "?"), "#"), ":")

normalizeSite(input) ==
    LET site == stripPrefix(removeProtocol(toLowerCase(trim(input))), WwwPrefix)
    IN  IF includes(site, ".") \/ includes(site, "/") THEN hostnameOnly(site) ELSE site

-----------------------------------------------------------------------------
(* 32-bit arithmetic of hardenPhrase                                        *)
(* A JavaScript number holding an unsigned 32-bit integer is [hi, lo] with  *)
(* value hi * 65536 + lo.                                                   *)

TwoTo16 == 65536
TwoTo15 == 32768

U32(h, l) == [hi |-> h, lo |-> l]

RECURSIVE BitXor(_, _)
BitXor(a, b) == IF a = 0 /\ b = 0 THEN 0
                ELSE (((a % 2) + (b % 2)) % 2) + 2 * BitXor(a \div 2, b \div 2)

\* seed << 5: the low 32 bits of seed * 32
shiftLeft5(seed) ==
    LET l == seed.lo * 32
        h == (seed.hi * 32) + (l \div TwoTo16)
    IN  U32(h % TwoTo16, l % TwoTo16)

\* An addition of the two halves that would lose the carry out of the low half
addHalves(a, b) == U32((a.hi + b.hi) % TwoTo16, (a.lo + b.lo) % TwoTo16)

\* a + b, then ToInt32 as applied by the operator ^ : the low 32 bits of the sum
addInt32(a, b) ==
    LET l == a.lo + b.lo
        h == a.hi + b.hi + (l \div TwoTo16)
    IN  U32(h % TwoTo16, l % TwoTo16)

\* seed = ((seed << 5) + seed) ^ code; seed = seed >>> 0   (code < 65536)
seedStep(seed, code) ==
    LET sum == addInt32(shiftLeft5(seed), seed)
    IN  U32(sum.hi, BitXor(sum.lo, code))

\* for (let i = lo; i <= hi; i++) seed = step(seed, s.charCodeAt(i)), i counted from 1:
\* the first half of the range, then the second half
RECURSIVE seedFrom(_, _, _, _)
seedFrom(seed, s, lo, hi) ==
    IF lo > hi THEN seed
    ELSE IF lo = hi THEN seedStep(seed, charCodeAt(s[lo]))
    ELSE the({seedFrom(half, s, ((lo + hi) \div 2) + 1, hi) :
                 half \in {seedFrom(seed, s, lo, (lo + hi) \div 2)}})

\* let seed = 5381; for (let i = 0; i < normalized.length; i++) { ... }
seedOf(normalized) == seedFrom(U32(0, 5381), normalized, 1, Len(normalized))

\* seed % n for the unsigned number seed and 0 < n < 2^15
uMod(seed, n) == (((seed.hi % n) * (TwoTo16 % n)) + (seed.lo % n)) % n

\* Math.floor(seed / n) for 0 < n < 2^15
uFloorDiv(seed, n) ==
    LET r == ((seed.hi % n) * TwoTo16) + seed.lo
    IN  U32(seed.hi \div n, r \div n)

Pow2(k) == 2 ^ k

\* seed >> k (k in {4, 8}): ToInt32, then the sign-propagating shift
shiftRightSigned(seed, k) ==
    LET u == (seed.hi * (TwoTo16 \div Pow2(k))) + (seed.lo \div Pow2(k))
    IN  IF seed.hi >= TwoTo15 THEN u - ((TwoTo16 \div Pow2(k)) * TwoTo16) ELSE u

\* a % n of JavaScript: the result has the sign of the dividend
jsRem(a, n) == IF a >= 0 THEN a % n ELSE 0 - ((0 - a) % n)

-----------------------------------------------------------------------------
(* hardenPhrase                                                             *)

SuffixSymbols == <<"!","@","#","$","%","^","&","*">>
SuffixDigits == <<"2","3","4","5","6","7","8","9">>

\* Step 1
normalizePhrase(phrase) == collapseWhitespace(toLowerCase(trim(phrase)))

\* Step 3 without the test words.length > 2
capitalizeBoth(words, seed) ==
    IF Len(words) >= 2
    THEN LET pos1 == uMod(seed, Len(words))
             pos2 == uMod(uFloorDiv(seed, Len(words)), Len(words))
         IN  [i \in 1..Len(words) |->
                 IF i = pos1 + 1 \/ i = pos2 + 1 THEN toUpperCase(words[i]) ELSE words[i]]
    ELSE IF Len(words) = 1 /\ Len(words[1]) > 0
    THEN <<toUpperCase(<<words[1][1]>>) \o Tail(words[1])>>
    ELSE words

\* Step 3
capitalizeWords(words, seed) ==
    IF Len(words) >= 2
    THEN LET pos1 == uMod(seed, Len(words))
             pos2 == uMod(uFloorDiv(seed, Len(words)), Len(words))
         IN  [i \in 1..Len(words) |->
                 IF i = pos1 + 1 \/ (i = pos2 + 1 /\ pos2 # pos1 /\ Len(words) > 2)
                 THEN toUpperCase(words[i]) ELSE words[i]]
    ELSE IF Len(words) = 1 /\ Len(words[1]) > 0
    THEN <<toUpperCase(<<words[1][1]>>) \o Tail(words[1])>>
    ELSE words

\* Step 4
suffixOf(seed) ==
    LET sym1 == charAtIndex(SuffixSymbols, uMod(seed, Len(SuffixSymbols)))
        dig1 == charAtIndex(SuffixDigits, jsRem(shiftRightSigned(seed, 4), Len(SuffixDigits)))
        sym2 == charAtIndex(SuffixSymbols, jsRem(shiftRightSigned(seed, 8), Len(SuffixSymbols)))
    IN  sym1 \o dig1 \o sym2

hardenPhrase(phrase) ==
    LET normalized == normalizePhrase(phrase)
        seed == seedOf(normalized)
        words == capitalizeWords(split(normalized, " "), seed)
    IN  IF normalized = <<>> THEN normalized
        ELSE join(words, " ") \o suffixOf(seed)

-----------------------------------------------------------------------------
(* Character pools (read from the checkboxes of the form, els)              *)

buildCharacterPool(els) ==
    LET selected == (IF els.useUpper THEN CHAR_SETS.upper ELSE <<>>)
                    \o (IF els.useLower THEN CHAR_SETS.lower ELSE <<>>)
                    \o (IF els.useDigits THEN CHAR_SETS.digits ELSE <<>>)
                    \o (IF els.useSymbols THEN CHAR_SETS.symbols ELSE <<>>)
        unambiguous == IF els.excludeAmbiguous THEN removeEach(selected, AMBIGUOUS_CHARS) ELSE selected
    IN  IF els.excludeProblematic THEN removeEach(unambiguous, PROBLEMATIC_CHARS) ELSE unambiguous

upperPool(els) == IF els.excludeAmbiguous THEN removeEach(CHAR_SETS.upper, <<"O","I">>) ELSE CHAR_SETS.upper
lowerPool(els) == IF els.excludeAmbiguous THEN removeEach(CHAR_SETS.lower, <<"l">>) ELSE CHAR_SETS.lower
\* A digits pool that would ignore excludeAmbiguous
digitsPoolAll(els) == CHAR_SETS.digits

digitsPool(els) == IF els.excludeAmbiguous THEN removeEach(CHAR_SETS.digits, <<"0","1">>) ELSE CHAR_SETS.digits
symbolsPool(els) == IF els.excludeProblematic THEN removeEach(CHAR_SETS.symbols, PROBLEMATIC_CHARS) ELSE CHAR_SETS.symbols

pushPool(on, type, chars) == IF on /\ Len(chars) > 0 THEN <<[type |-> type, chars |-> chars]>> ELSE <<>>

getCharacterPools(els) ==
    pushPool(els.useUpper, "upper", upperPool(els))
    \o pushPool(els.useLower, "lower", lowerPool(els))
    \o pushPool(els.useDigits, "digits", digitsPool(els))
    \o pushPool(els.useSymbols, "symbols", symbolsPool(els))

-----------------------------------------------------------------------------
(* generatePasswordFromBytes                                                *)
(* The loops thread st = [chars, byteIndex]: the characters written so far  *)
(* and the cursor of nextByte.                                              *)

NoCharacterTypes == "No character types selected"
LengthTooShort == "Password length too short for selected character types"

\* An element of new Array(length) that was never assigned.
Hole == "hole"

\* new Array(n): n holes
RECURSIVE newArray(_)
newArray(n) == IF n <= 0 THEN <<>>
               ELSE IF n % 2 = 0 THEN newArray(n \div 2) \o newArray(n \div 2)
               ELSE <<Hole>> \o newArray(n - 1)

\* passwordChars.join(): the default separator, a comma, between the elements
joinWithCommas(chars) == join([i \in 1..Len(chars) |-> IF chars[i] = Hole THEN <<>> ELSE <<chars[i]>>], ",")

\* passwordChars.join(''): a hole contributes no character
joinChars(chars) == SelectSeq(chars, LAMBDA c : c # Hole)

nextByte(derivedBytes, byteIndex) == derivedBytes[(byteIndex % Len(derivedBytes)) + 1]

\* (low << 8) | high: the first byte read taken as the low-order byte
nextWordLowFirst(derivedBytes, byteIndex) ==
    (nextByte(derivedBytes, byteIndex + 1) * 256) + nextByte(derivedBytes, byteIndex)

\* (high << 8) | low, for the two bytes at the cursor
nextWord(derivedBytes, byteIndex) ==
    (nextByte(derivedBytes, byteIndex) * 256) + nextByte(derivedBytes, byteIndex + 1)

\* for (let i = 0; i < mandatoryCount; i++)
RECURSIVE pickMandatory(_, _, _, _)
pickMandatory(derivedBytes, pools, i, st) ==
    IF i >= Len(pools) THEN st
    ELSE LET pool == pools[i + 1].chars
             charIndex == nextWord(derivedBytes, st.byteIndex) % Len(pool)
         IN  pickMandatory(derivedBytes, pools, i + 1,
                           [chars |-> [st.chars EXCEPT ![i + 1] = pool[charIndex + 1]],
                            byteIndex |-> st.byteIndex + 2])

\* passwordChars[i] = combinedPool[nextWord() % combinedPool.length]
fillOne(derivedBytes, combinedPool, i, st) ==
    LET charIndex == nextWord(derivedBytes, st.byteIndex) % Len(combinedPool)
    IN  [chars |-> [st.chars EXCEPT ![i + 1] = combinedPool[charIndex + 1]],
         byteIndex |-> st.byteIndex + 2]

\* for (let i = lo; i <= hi; i++): the first half of the range, then the second half
RECURSIVE fillRemaining(_, _, _, _, _)
fillRemaining(derivedBytes, combinedPool, lo, hi, st) ==
    IF lo > hi THEN st
    ELSE IF lo = hi THEN fillOne(derivedBytes, combinedPool, lo, st)
    ELSE the({fillRemaining(derivedBytes, combinedPool, ((lo + hi) \div 2) + 1, hi, half) :
                 half \in {fillRemaining(derivedBytes, combinedPool, lo, (lo + hi) \div 2, st)}})

\* passwordChars[i] = passwordChars[j] alone: the element at i is lost
swapOverwrite(chars, i, j) == [chars EXCEPT ![i + 1] = chars[j + 1]]

swap(chars, i, j) == [chars EXCEPT ![i + 1] = chars[j + 1], ![j + 1] = chars[i + 1]]

\* const j = nextWord() % (i + 1); swap passwordChars[i] and passwordChars[j]
shuffleOne(derivedBytes, i, st) ==
    LET j == nextWord(derivedBytes, st.byteIndex) % (i + 1)
    IN  [chars |-> swap(st.chars, i, j), byteIndex |-> st.byteIndex + 2]

\* A shuffle loop that would run upwards: for (let i = lo; i <= hi; i++)
RECURSIVE shuffleAscending(_, _, _, _)
shuffleAscending(derivedBytes, hi, lo, st) ==
    IF hi < lo THEN st
    ELSE IF hi = lo THEN shuffleOne(derivedBytes, hi, st)
    ELSE the({shuffleAscending(derivedBytes, hi, ((lo + hi) \div 2) + 1, half) :
                 half \in {shuffleAscending(derivedBytes, (lo + hi) \div 2, lo, st)}})

\* for (let i = hi; i >= lo; i--): the upper half of the range, then the lower half
RECURSIVE shuffle(_, _, _, _)
shuffle(derivedBytes, hi, lo, st) ==
    IF hi < lo THEN st
    ELSE IF hi = lo THEN shuffleOne(derivedBytes, hi, st)
    ELSE the({shuffle(derivedBytes, (lo + hi) \div 2, lo, half) :
                 half \in {shuffle(derivedBytes, hi, ((lo + hi) \div 2) + 1, st)}})

\* generatePasswordFromBytes with the test pools.length >= length
generatePasswordFromBytesStrict(derivedBytes, length, els) ==
    LET pools == getCharacterPools(els)
        combinedPool == buildCharacterPool(els)
        mandatory == pickMandatory(derivedBytes, pools, 0, [chars |-> newArray(length), byteIndex |-> 0])
        filled == fillRemaining(derivedBytes, combinedPool, Len(pools), length - 1, mandatory)
        shuffled == shuffle(derivedBytes, length - 1, 1, filled)
    IN  IF Len(combinedPool) = 0 THEN [ok |-> FALSE, error |-> NoCharacterTypes]
        ELSE IF Len(pools) >= length THEN [ok |-> FALSE, error |-> LengthTooShort]
        ELSE [ok |-> TRUE, value |-> joinChars(shuffled.chars), words |-> shuffled.byteIndex \div 2]

generatePasswordFromBytes(derivedBytes, length, els) ==
    LET pools == getCharacterPools(els)
        combinedPool == buildCharacterPool(els)
        passwordChars == newArray(length)
        mandatory == pickMandatory(derivedBytes, pools, 0, [chars |-> passwordChars, byteIndex |-> 0])
        filled == fillRemaining(derivedBytes, combinedPool, Len(pools), length - 1, mandatory)
        shuffled == shuffle(derivedBytes, length - 1, 1, filled)
    IN  IF Len(combinedPool) = 0 THEN [ok |-> FALSE, error |-> NoCharacterTypes]
        ELSE IF Len(pools) > length THEN [ok |-> FALSE, error |-> LengthTooShort]
        ELSE [ok |-> TRUE, value |-> joinChars(shuffled.chars), words |-> shuffled.byteIndex \div 2]

-----------------------------------------------------------------------------
(* deriveBytes                                                              *)
(* crypto.subtle.deriveBits is PBKDF2-HMAC-SHA256 of the Web Crypto API.    *)
(* Its output is tabulated for the hardened phrases, salts and iteration    *)
(* counts that the forms of this model can submit: each row holds the       *)
(* UTF-8 bytes of the phrase (the key), the UTF-8 bytes of the salt, the    *)
(* iteration count and the first DERIVED_BYTES bytes of the PBKDF2 output.  *)

\* new TextEncoder().encode(str), for the characters of the model (one byte each)
stringToBytes(str) == SubSeq([i \in 1..Len(str) |-> charCodeAt(str[i])], 1, Len(str))

PBKDF2 == {
    \* "", "password-mint::v1::::1", 210000
    [key |-> <<>>,
     salt |-> <<112,97,115,115,119,111,114,100,45,109,105,110,116,58,58,118,49,58,58,58,58,49>>,
     iterations |-> 210000,
     block |-> <<199,85,1,157,89,11,158,13,108,160,76,34,90,31,207,37,138,39,214,136,7,62,217,87,176,249,31,90,6,85,215,147>>\o
               <<185,239,74,208,174,173,226,171,122,232,28,5,53,94,185,141,48,22,153,183,31,197,66,86,114,186,171,18,218,153,178,88>>],
    \* "", "password-mint::v1::::1", 400000
    [key |-> <<>>,
     salt |-> <<112,97,115,115,119,111,114,100,45,109,105,110,116,58,58,118,49,58,58,58,58,49>>,
     iterations |-> 400000,
     block |-> <<187,147,208,187,46,179,160,15,22,72,181,166,143,15,150,58,95,237,144,0,90,237,154,63,73,54,51,40,104,94,52,213>>\o
               <<20,217,104,6,87,101,251,146,44,153,190,203,146,153,179,114,86,199,15,40,9,203,192,154,98,208,64,253,200,19,163,155>>],
    \* "", "password-mint::v1::::2", 210000
    [key |-> <<>>,
     salt |-> <<112,97,115,115,119,111,114,100,45,109,105,110,116,58,58,118,49,58,58,58,58,50>>,
     iterations |-> 210000,
     block |-> <<180,161,177,18,118,142,72,231,34,204,161,141,33,68,16,110,178,186,94,152,102,118,8,224,41,213,189,226,101,140,49,31>>\o
               <<222,48,147,110,96,84,94,88,10,111,78,136,5,107,153,144,228,141,242,57,230,132,19,237,20,172,149,53,251,66,36,84>>],
    \* "", "password-mint::v1::::2", 400000
    [key |-> <<>>,
     salt |-> <<112,97,115,115,119,111,114,100,45,109,105,110,116,58,58,118,49,58,58,58,58,50>>,
     iterations |-> 400000,
     block |-> <<250,62,114,105,210,216,19,159,72,232,149,84,76,168,220,198,7,42,165,77,40,91,147,84,181,1,251,248,225,193,88,208>>\o
               <<1,128,217,231,236,88,116,13,125,99,0,227,248,218,224,85,224,115,100,91,215,196,154,212,233,190,197,82,28,220,220,196>>],
    \* "", "password-mint::v1::::x", 210000
    [key |-> <<>>,
     salt |-> <<112,97,115,115,119,111,114,100,45,109,105,110,116,58,58,118,49,58,58,58,58,120>>,
     iterations |-> 210000,
     block |-> <<234,76,15,175,112,56,82,238,179,235,82,165,250,102,122,74,162,38,1,208,181,37,254,19,19,0,5,71,34,146,249,60>>\o
               <<108,135,127,58,5,119,2,248,50,15,128,52,7,255,72,105,152,198,196,148,225,119,30,123,125,178,37,245,30,93,122,58>>],
    \* "", "password-mint::v1::::x", 400000
    [key |-> <<>>,
     salt |-> <<112,97,115,115,119,111,114,100,45,109,105,110,116,58,58,118,49,58,58,58,58,120>>,
     iterations |-> 400000,
     block |-> <<2,16,105,103,157,222,133,201,38,82,252,139,113,88,234,253,251,129,136,158,55,42,97,93,96,101,131,44,206,44,216,22>>\o
               <<130,33,107,135,133,99,23,98,11,121,4,70,233,92,179,15,225,54,148,232,223,251,83,28,105,211,173,44,204,43,177,86>>],
    \* "", "password-mint::v1::github.com::1", 210000
    [key |-> <<>>,
     salt |-> <<112,97,115,115,119,111,114,100,45,109,105,110,116,58,58,118,49,58,58,103,105,116,104,117,98,46,99,111,109,58,58,49>>,
     iterations |-> 210000,
     block |-> <<5,215,88,181,201,135,216,60,60,222,57,182,65,216,13,234,136,204,8,32,42,132,239,68,132,34,60,14,193,42,30,90>>\o
               <<137,170,188,164,11,255,134,206,171,169,173,62,128,24,140,161,96,202,191,187,170,65,90,72,53,201,3,251,25,36,48,81>>],
    \* "", "password-mint::v1::github.com::1", 400000
    [key |-> <<>>,
     salt |-> <<112,97,115,115,119,111,114,100,45,109,105,110,116,58,58,118,49,58,58,103,105,116,104,117,98,46,99,111,109,58,58,49>>,
     iterations |-> 400000,
     block |-> <<44,128,129,51,115,159,169,65,210,184,57,64,122,150,68,143,234,107,186,111,38,139,158,246,125,254,112,1,205,69,99,35>>\o
               <<102,210,156,78,161,187,204,98,5,34,160,26,241,232,144,35,25,155,189,149,205,250,156,71,129,24,143,135,157,44,247,85>>],
    \* "", "password-mint::v1::github.com::2", 210000
    [key |-> <<>>,
     salt |-> <<112,97,115,115,119,111,114,100,45,109,105,110,116,58,58,118,49,58,58,103,105,116,104,117,98,46,99,111,109,58,58,50>>,
     iterations |-> 210000,
     block |-> <<108,50,167,12,241,241,226,120,209,92,119,119,40,201,200,149,61,172,153,10,73,196,18,95,125,99,137,161,229,247,235,211>>\o
               <<26,34,67,107,242,5,15,39,24,88,8,76,115,92,96,58,81,87,136,78,151,116,24,222,119,207,59,250,97,8,225,57>>],
    \* "", "password-mint::v1::github.com::2", 400000
    [key |-> <<>>,
     salt |-> <<112,97,115,115,119,111,114,100,45,109,105,110,116,58,58,118,49,58,58,103,105,116,104,117,98,46,99,111,109,58,58,50>>,
     iterations |-> 400000,
     block |-> <<157,170,205,119,180,40,187,47,163,215,56,228,28,43,69,254,179,230,68,4,252,252,39,160,18,129,207,4,52,1,50,146>>\o
               <<48,83,92,171,149,247,101,100,29,221,238,61,120,231,33,213,246,184,84,178,255,137,136,174,2,94,158,174,146,29,33,214>>],
    \* "", "password-mint::v1::github.com::x", 210000
    [key |-> <<>>,
     salt |-> <<112,97,115,115,119,111,114,100,45,109,105,110,116,58,58,118,49,58,58,103,105,116,104,117,98,46,99,111,109,58,58,120>>,
     iterations |-> 210000,
     block |-> <<86,223,122,135,179,140,233,66,17,63,31,118,193,22,105,162,79,25,35,182,5,13,174,230,3,129,72,58,70,13,228,134>>\o
               <<27,62,255,88,137,37,139,69,98,123,106,227,75,14,119,216,115,159,5,94,248,212,93,187,96,112,222,29,49,171,80,163>>],
    \* "", "password-mint::v1::github.com::x", 400000
    [key |-> <<>>,
     salt |-> <<112,97,115,115,119,111,114,100,45,109,105,110,116,58,58,118,49,58,58,103,105,116,104,117,98,46,99,111,109,58,58,120>>,
     iterations |-> 400000,
     block |-> <<217,177,198,19,60,130,188,158,100,156,75,241,142,20,105,104,50,51,179,37,163,23,101,226,64,17,255,19,121,159,235,45>>\o
               <<187,216,163,180,43,212,155,189,195,111,80,156,164,80,3,102,172,139,246,123,84,76,85,47,112,14,151,166,131,0,91,118>>],
    \* "", "password-mint::v1::github::1", 210000
    [key |-> <<>>,
     salt |-> <<112,97,115,115,119,111,114,100,45,109,105,110,116,58,58,118,49,58,58,103,105,116,104,117,98,58,58,49>>,
     iterations |-> 210000,
     block |-> <<168,225,112,149,148,112,154,111,117,194,19,60,137,10,250,175,88,48,199,94,166,38,136,165,223,23,202,11,167,123,182,20>>\o
               <<163,10,101,7,201,143,68,92,135,35,178,79,191,78,99,122,211,168,212,176,93,224,167,48,93,129,162,103,99,163,228,202>>],
    \* "", "password-mint::v1::github::1", 400000
    [key |-> <<>>,
     salt |-> <<112,97,115,115,119,111,114,100,45,109,105,110,116,58,58,118,49,58,58,103,105,116,104,117,98,58,58,49>>,
     iterations |-> 400000,
     block |-> <<19,31,136,84,7,30,67,233,145,117,213,120,235,113,86,208,36,130,103,66,173,202,51,174,107,218,222,203,18,79,57,199>>\o
               <<156,201,213,99,152,58,131,205,188,213,149,219,109,82,236,146,88,4,101,109,161,37,139,0,107,217,90,176,2,136,101,112>>],
    \* "", "password-mint::v1::github::2", 210000
    [key |-> <<>>,
     salt |-> <<112,97,115,115,119,111,114,100,45,109,105,110,116,58,58,118,49,58,58,103,105,116,104,117,98,58,58,50>>,
     iterations |-> 210000,
     block |-> <<120,212,143,37,183,210,134,35,201,156,117,20,145,168,161,225,155,245,160,85,237,128,17,236,112,47,58,38,29,78,133,45>>\o
               <<165,194,244,185,74,118,242,42,25,247,196,236,144,238,32,207,103,235,196,62,8,8,104,95,96,159,252,120,88,92,218,207>>],
    \* "", "password-mint::v1::github::2", 400000
    [key |-> <<>>,
     salt |-> <<112,97,115,115,119,111,114,100,45,109,105,110,116,58,58,118,49,58,58,103,105,116,104,117,98,58,58,50>>,
     iterations |-> 400000,
     block |-> <<182,90,144,113,196,240,29,108,52,156,123,191,216,162,216,161,137,169,251,45,110,147,166,124,206,162,123,115,53,235,99,251>>\o
               <<62,17,14,129,74,117,89,117,67,133,200,35,71,38,15,241,4,8,182,255,220,108,77,187,33,94,230,194,32,61,150,219>>],
    \* "", "password-mint::v1::github::x", 210000
    [key |-> <<>>,
     salt |-> <<112,97,115,115,119,111,114,100,45,109,105,110,116,58,58,118,49,58,58,103,105,116,104,117,98,58,58,120>>,
     iterations |-> 210000,
     block |-> <<121,180,54,24,85,135,18,155,30,178,254,123,117,42,47,248,248,63,68,179,142,138,182,146,182,14,109,62,110,25,57,189>>\o
               <<172,190,106,85,73,215,20,195,84,6,120,241,56,42,103,19,144,84,196,196,114,141,121,49,238,215,46,253,22,192,83,180>>],
    \* "", "password-mint::v1::github::x", 400000
    [key |-> <<>>,
     salt |-> <<112,97,115,115,119,111,114,100,45,109,105,110,116,58,58,118,49,58,58,103,105,116,104,117,98,58,58,120>>,
     iterations |-> 400000,
     block |-> <<60,199,113,144,214,247,26,93,240,244,114,196,147,182,109,83,100,224,60,251,154,48,202,32,207,243,61,130,194,99,220,167>>\o
               <<180,75,11,132,206,107,65,125,165,41,92,209,23,147,65,13,6,133,215,8,36,154,99,0,34,207,93,228,159,30,159,83>>],
    \* "A b&2#", "password-mint::v1::::1", 210000
    [key |-> <<65,32,98,38,50,35>>,
     salt |-> <<112,97,115,115,119,111,114,100,45,109,105,110,116,58,58,118,49,58,58,58,58,49>>,
     iterations |-> 210000,
     block |-> <<114,47,32,178,48,17,254,233,114,254,47,141,86,166,2,0,151,215,186,150,32,148,250,47,95,140,21,222,102,72,50,217>>\o
               <<170,1,63,15,197,165,244,58,55,7,103,65,83,176,170,149,192,202,44,179,171,124,212,89,173,134,96,164,118,177,117,249>>],
    \* "A b&2#", "password-mint::v1::::1", 400000
    [key |-> <<65,32,98,38,50,35>>,
     salt |-> <<112,97,115,115,119,111,114,100,45,109,105,110,116,58,58,118,49,58,58,58,58,49>>,
     iterations |-> 400000,
     block |-> <<249,226,70,213,172,230,153,219,16,128,215,85,157,45,177,202,109,237,110,120,167,139,125,194,119,36,41,154,202,146,206,232>>\o
               <<210,85,117,108,36,98,153,229,224,198,239,142,195,162,26,78,87,247,218,104,162,197,32,133,170,106,223,98,49,126,117,208>>],
    \* "A b&2#", "password-mint::v1::::2", 210000
    [key |-> <<65,32,98,38,50,35>>,
     salt |-> <<112,97,115,115,119,111,114,100,45,109,105,110,116,58,58,118,49,58,58,58,58,50>>,
     iterations |-> 210000,
     block |-> <<141,124,93,12,105,224,54,31,222,62,89,1,30,193,28,207,33,64,117,131,34,109,60,36,46,186,39,159,109,240,98,223>>\o
               <<200,48,234,104,50,117,205,19,232,11,49,239,115,86,15,77,139,91,137,85,28,26,250,167,237,110,253,26,233,18,69,98>>],
    \* "A b&2#", "password-mint::v1::::2", 400000
    [key |-> <<65,32,98,38,50,35>>,
     salt |-> <<112,97,115,115,119,111,114,100,45,109,105,110,116,58,58,118,49,58,58,58,58,50>>,
     iterations |-> 400000,
     block |-> <<162,46,120,247,2,70,171,138,158,6,110,186,161,28,56,144,161,238,95,164,138,199,223,44,98,10,201,227,79,157,148,159>>\o
               <<126,79,40,5,42,186,186,51,63,164,246,240,207,53,216,194,224,130,250,62,42,78,246,214,27,191,208,193,82,190,26,196>>],
    \* "A b&2#", "password-mint::v1::::x", 210000
    [key |-> <<65,32,98,38,50,35>>,
     salt |-> <<112,97,115,115,119,111,114,100,45,109,105,110,116,58,58,118,49,58,58,58,58,120>>,
     iterations |-> 210000,
     block |-> <<105,231,89,127,245,14,192,130,39,197,132,47,35,135,247,227,20,215,11,4,152,18,240,203,27,145,166,195,214,100,169,114>>\o
               <<247,6,217,126,254,199,177,125,197,64,179,43,101,236,120,231,234,80,230,109,84,182,116,11,28,217,239,23,239,31,127,246>>],
    \* "A b&2#", "password-mint::v1::::x", 400000
    [key |-> <<65,32,98,38,50,35>>,
     salt |-> <<112,97,115,115,119,111,114,100,45,109,105,110,116,58,58,118,49,58,58,58,58,120>>,
     iterations |-> 400000,
     block |-> <<135,197,238,197,86,16,40,232,35,120,177,59,1,57,134,164,187,251,173,175,34,182,58,209,65,190,191,129,73,80,170,149>>\o
               <<174,108,49,85,204,7,39,23,166,50,39,95,126,85,205,246,170,7,194,246,25,82,19,47,43,5,194,184,67,255,93,55>>],
    \* "A b&2#", "password-mint::v1::github.com::1", 210000
    [key |-> <<65,32,98,38,50,35>>,
     salt |-> <<112,97,115,115,119,111,114,100,45,109,105,110,116,58,58,118,49,58,58,103,105,116,104,117,98,46,99,111,109,58,58,49>>,
     iterations |-> 210000,
     block |-> <<83,56,27,250,16,12,126,8,179,71,255,48,213,79,232,120,154,75,68,51,17,107,112,189,143,170,182,218,41,183,36,25>>\o
               <<130,170,26,10,145,240,156,98,148,249,16,38,201,50,25,87,196,127,126,19,102,147,30,179,146,177,219,155,31,219,190,186>>],
    \* "A b&2#", "password-mint::v1::github.com::1", 400000
    [key |-> <<65,32,98,38,50,35>>,
     salt |-> <<112,97,115,115,119,111,114,100,45,109,105,110,116,58,58,118,49,58,58,103,105,116,104,117,98,46,99,111,109,58,58,49>>,
     iterations |-> 400000,
     block |-> <<179,61,46,81,10,89,110,143,8,14,55,190,173,56,251,77,147,207,1,57,179,208,191,238,66,46,108,36,200,228,12,248>>\o
               <<194,141,47,204,66,25,155,240,25,98,229,168,148,174,54,234,177,197,171,3,231,173,31,103,17,226,9,247,194,157,104,52>>],
    \* "A b&2#", "password-mint::v1::github.com::2", 210000
    [key |-> <<65,32,98,38,50,35>>,
     salt |-> <<112,97,115,115,119,111,114,100,45,109,105,110,116,58,58,118,49,58,58,103,105,116,104,117,98,46,99,111,109,58,58,50>>,
     iterations |-> 210000,
     block |-> <<228,122,62,178,12,186,22,163,157,147,168,102,222,208,122,85,216,21,173,2,206,13,20,89,188,234,106,162,139,228,213,182>>\o
               <<222,35,145,175,241,151,76,205,150,178,160,121,205,39,76,12,254,181,222,67,189,136,88,213,96,101,58,147,113,244,101,107>>],
    \* "A b&2#", "password-mint::v1::github.com::2", 400000
    [key |-> <<65,32,98,38,50,35>>,
     salt |-> <<112,97,115,115,119,111,114,100,45,109,105,110,116,58,58,118,49,58,58,103,105,116,104,117,98,46,99,111,109,58,58,50>>,
     iterations |-> 400000,
     block |-> <<80,182,228,102,137,216,100,37,248,41,76,11,187,13,58,254,121,71,45,23,75,148,92,130,152,146,253,214,121,42,228,159>>\o
               <<73,204,5,163,48,123,191,72,26,247,88,236,144,3,5,209,161,48,81,92,109,162,12,73,101,31,178,185,22,117,163,41>>],
    \* "A b&2#", "password-mint::v1::github.com::x", 210000
    [key |-> <<65,32,98,38,50,35>>,
     salt |-> <<112,97,115,115,119,111,114,100,45,109,105,110,116,58,58,118,49,58,58,103,105,116,104,117,98,46,99,111,109,58,58,120>>,
     iterations |-> 210000,
     block |-> <<68,255,11,215,245,66,218,5,231,14,236,192,160,138,76,97,228,26,111,237,1,146,112,162,217,208,103,201,77,56,231,214>>\o
               <<244,240,23,131,133,31,142,193,48,164,134,15,22,188,121,240,167,146,222,12,137,181,14,190,213,222,120,210,102,162,103,240>>],
    \* "A b&2#", "password-mint::v1::github.com::x", 400000
    [key |-> <<65,32,98,38,50,35>>,
     salt |-> <<112,97,115,115,119,111,114,100,45,109,105,110,116,58,58,118,49,58,58,103,105,116,104,117,98,46,99,111,109,58,58,120>>,
     iterations |-> 400000,
     block |-> <<232,110,125,104,76,115,14,164,150,35,134,155,240,50,251,202,221,157,77,116,18,42,174,75,197,193,136,79,243,71,55,98>>\o
               <<211,217,16,163,185,243,166,218,74,239,73,127,212,211,85,221,24,71,46,103,22,76,210,26,67,207,227,248,42,255,54,235>>],
    \* "A b&2#", "password-mint::v1::github::1", 210000
    [key |-> <<65,32,98,38,50,35>>,
     salt |-> <<112,97,115,115,119,111,114,100,45,109,105,110,116,58,58,118,49,58,58,103,105,116,104,117,98,58,58,49>>,
     iterations |-> 210000,
     block |-> <<133,148,87,202,126,85,239,217,251,22,170,4,82,204,40,50,32,8,252,172,119,221,71,210,76,78,218,99,211,78,50,4>>\o
               <<231,96,231,213,238,235,103,35,21,198,90,16,193,23,219,8,174,189,199,213,221,96,151,197,36,119,27,211,53,205,124,34>>],
    \* "A b&2#", "password-mint::v1::github::1", 400000
    [key |-> <<65,32,98,38,50,35>>,
     salt |-> <<112,97,115,115,119,111,114,100,45,109,105,110,116,58,58,118,49,58,58,103,105,116,104,117,98,58,58,49>>,
     iterations |-> 400000,
     block |-> <<54,194,201,124,33,43,30,77,85,128,244,170,158,122,31,10,98,155,228,151,202,70,210,196,175,71,219,216,37,187,107,160>>\o
               <<121,234,135,163,164,191,85,138,125,150,255,119,59,42,71,96,237,22,71,252,172,61,37,28,194,33,199,112,115,31,72,64>>],
    \* "A b&2#", "password-mint::v1::github::2", 210000
    [key |-> <<65,32,98,38,50,35>>,
     salt |-> <<112,97,115,115,119,111,114,100,45,109,105,110,116,58,58,118,49,58,58,103,105,116,104,117,98,58,58,50>>,
     iterations |-> 210000,
     block |-> <<126,87,86,10,187,105,215,165,127,228,135,104,189,213,235,2,39,124,218,80,189,115,226,211,226,236,29,160,161,213,76,209>>\o
               <<217,185,108,140,117,172,215,25,96,113,166,118,0,62,31,14,143,79,26,7,45,109,226,153,49,237,199,149,16,252,162,93>>],
    \* "A b&2#", "password-mint::v1::github::2", 400000
    [key |-> <<65,32,98,38,50,35>>,
     salt |-> <<112,97,115,115,119,111,114,100,45,109,105,110,116,58,58,118,49,58,58,103,105,116,104,117,98,58,58,50>>,
     iterations |-> 400000,
     block |-> <<36,241,51,152,180,190,161,152,95,199,122,160,29,160,82,81,251,3,104,160,103,226,155,51,186,49,143,190,65,173,108,238>>\o
               <<26,109,228,196,185,224,73,159,117,91,214,143,142,220,160,54,129,20,83,166,112,112,8,215,141,50,128,47,13,15,9,252>>],
    \* "A b&2#", "password-mint::v1::github::x", 210000
    [key |-> <<65,32,98,38,50,35>>,
     salt |-> <<112,97,115,115,119,111,114,100,45,109,105,110,116,58,58,118,49,58,58,103,105,116,104,117,98,58,58,120>>,
     iterations |-> 210000,
     block |-> <<186,153,221,124,210,84,177,177,14,36,134,110,182,224,137,198,161,249,214,146,27,140,164,167,227,198,73,87,92,172,124,255>>\o
               <<34,188,203,191,107,220,86,79,35,239,246,96,211,142,187,121,48,24,158,238,194,119,9,87,118,202,235,180,157,25,94,232>>],
    \* "A b&2#", "password-mint::v1::github::x", 400000
    [key |-> <<65,32,98,38,50,35>>,
     salt |-> <<112,97,115,115,119,111,114,100,45,109,105,110,116,58,58,118,49,58,58,103,105,116,104,117,98,58,58,120>>,
     iterations |-> 400000,
     block |-> <<214,35,199,178,107,152,69,70,102,82,112,8,223,186,5,222,68,39,59,190,14,248,87,32,190,142,161,218,68,36,51,148>>\o
               <<0,228,237,6,67,59,171,49,165,143,232,142,98,229,109,71,150,122,96,197,33,101,15,121,64,147,182,80,206,104,46,31>>],
    \* "C&6^", "password-mint::v1::::1", 210000
    [key |-> <<67,38,54,94>>,
     salt |-> <<112,97,115,115,119,111,114,100,45,109,105,110,116,58,58,118,49,58,58,58,58,49>>,
     iterations |-> 210000,
     block |-> <<244,122,44,243,226,129,102,88,229,77,139,212,203,252,131,192,28,36,23,57,200,75,246,247,206,230,155,13,117,137,48,11>>\o
               <<36,108,241,2,145,39,24,33,174,77,122,86,132,238,185,102,140,241,57,236,49,156,175,93,223,254,250,188,85,51,61,145>>],
    \* "C&6^", "password-mint::v1::::1", 400000
    [key |-> <<67,38,54,94>>,
     salt |-> <<112,97,115,115,119,111,114,100,45,109,105,110,116,58,58,118,49,58,58,58,58,49>>,
     iterations |-> 400000,
     block |-> <<92,151,190,28,165,41,166,19,9,32,102,175,21,105,233,184,128,252,113,29,36,50,195,71,117,218,48,110,131,202,62,91>>\o
               <<156,204,194,9,255,217,155,43,63,99,215,102,153,57,29,110,186,137,166,40,186,138,37,126,16,203,189,186,144,57,15,240>>],
    \* "C&6^", "password-mint::v1::::2", 210000
    [key |-> <<67,38,54,94>>,
     salt |-> <<112,97,115,115,119,111,114,100,45,109,105,110,116,58,58,118,49,58,58,58,58,50>>,
     iterations |-> 210000,
     block |-> <<55,222,187,73,99,98,175,210,129,218,95,236,252,199,236,200,67,130,253,13,133,71,97,157,30,52,17,247,152,100,85,90>>\o
               <<240,78,208,182,17,118,105,93,179,116,125,31,16,114,204,54,212,206,98,1,199,49,206,92,58,29,10,182,228,214,58,74>>],
    \* "C&6^", "password-mint::v1::::2", 400000
    [key |-> <<67,38,54,94>>,
     salt |-> <<112,97,115,115,119,111,114,100,45,109,105,110,116,58,58,118,49,58,58,58,58,50>>,
     iterations |-> 400000,
     block |-> <<65,156,174,43,210,108,201,193,136,218,132,230,239,67,83,0,88,15,115,79,76,174,77,38,49,212,88,219,210,36,133,181>>\o
               <<56,173,22,119,90,146,248,187,63,114,66,172,17,246,147,20,166,109,96,214,144,88,79,73,1,124,79,197,95,198,88,218>>],
    \* "C&6^", "password-mint::v1::::x", 210000
    [key |-> <<67,38,54,94>>,
     salt |-> <<112,97,115,115,119,111,114,100,45,109,105,110,116,58,58,118,49,58,58,58,58,120>>,
     iterations |-> 210000,
     block |-> <<14,38,183,132,28,64,144,202,179,252,236,218,58,223,182,253,91,1,190,64,127,191,107,41,28,54,241,33,161,230,157,72>>\o
               <<98,50,178,102,203,81,202,107,27,187,187,181,159,5,236,179,191,14,22,163,48,160,235,38,177,209,132,50,242,65,60,78>>],
    \* "C&6^", "password-mint::v1::::x", 400000
    [key |-> <<67,38,54,94>>,
     salt |-> <<112,97,115,115,119,111,114,100,45,109,105,110,116,58,58,118,49,58,58,58,58,120>>,
     iterations |-> 400000,
     block |-> <<205,157,50,228,119,235,112,88,254,119,25,131,29,131,144,100,142,125,115,171,81,74,4,226,216,26,90,104,220,43,194,206>>\o
               <<193,140,185,21,106,55,246,166,41,154,5,91,21,46,182,220,174,47,56,99,57,109,56,155,218,201,236,27,218,60,67,231>>],
    \* "C&6^", "password-mint::v1::github.com::1", 210000
    [key |-> <<67,38,54,94>>,
     salt |-> <<112,97,115,115,119,111,114,100,45,109,105,110,116,58,58,118,49,58,58,103,105,116,104,117,98,46,99,111,109,58,58,49>>,
     iterations |-> 210000,
     block |-> <<186,19,243,170,34,113,217,215,153,211,165,188,197,185,168,66,185,58,79,230,197,94,6,95,9,158,7,71,223,62,233,252>>\o
               <<67,175,249,77,183,189,64,0,36,253,96,7,219,230,240,244,122,187,190,193,112,6,139,151,224,141,32,33,231,157,158,178>>],
    \* "C&6^", "password-mint::v1::github.com::1", 400000
    [key |-> <<67,38,54,94>>,
     salt |-> <<112,97,115,115,119,111,114,100,45,109,105,110,116,58,58,118,49,58,58,103,105,116,104,117,98,46,99,111,109,58,58,49>>,
     iterations |-> 400000,
     block |-> <<97,109,129,135,168,233,193,207,56,82,90,16,196,110,183,11,140,51,189,128,133,50,244,95,160,198,158,21,27,224,19,31>>\o
               <<79,41,129,84,119,109,99,159,237,142,164,214,158,255,148,199,109,91,48,107,218,151,241,116,115,80,105,16,61,71,185,40>>],
    \* "C&6^", "password-mint::v1::github.com::2", 210000
    [key |-> <<67,38,54,94>>,
     salt |-> <<112,97,115,115,119,111,114,100,45,109,105,110,116,58,58,118,49,58,58,103,105,116,104,117,98,46,99,111,109,58,58,50>>,
     iterations |-> 210000,
     block |-> <<170,216,57,3,0,77,135,121,43,39,220,184,67,214,155,40,138,210,65,249,65,95,235,236,172,189,56,138,134,23,74,0>>\o
               <<163,80,160,205,73,191,3,223,44,15,12,27,146,118,41,67,197,84,79,34,208,62,48,61,224,0,40,26,181,255,236,106>>],
    \* "C&6^", "password-mint::v1::github.com::2", 400000
    [key |-> <<67,38,54,94>>,
     salt |-> <<112,97,115,115,119,111,114,100,45,109,105,110,116,58,58,118,49,58,58,103,105,116,104,117,98,46,99,111,109,58,58,50>>,
     iterations |-> 400000,
     block |-> <<218,233,48,188,206,132,7,54,145,217,11,46,64,139,217,75,12,51,76,209,83,32,28,106,29,147,90,164,119,235,30,40>>\o
               <<186,127,26,48,196,246,163,63,152,238,36,48,119,110,70,57,210,46,43,190,116,223,215,55,171,162,163,199,29,231,0,123>>],
    \* "C&6^", "password-mint::v1::github.com::x", 210000
    [key |-> <<67,38,54,94>>,
     salt |-> <<112,97,115,115,119,111,114,100,45,109,105,110,116,58,58,118,49,58,58,103,105,116,104,117,98,46,99,111,109,58,58,120>>,
     iterations |-> 210000,
     block |-> <<92,104,150,7,64,245,241,195,6,42,149,120,231,94,131,157,103,29,160,108,144,140,187,246,123,216,156,204,130,16,114,31>>\o
               <<72,203,146,147,231,36,31,145,65,67,241,127,22,134,200,141,191,150,226,83,211,136,198,156,157,36,194,125,74,73,211,230>>],
    \* "C&6^", "password-mint::v1::github.com::x", 400000
    [key |-> <<67,38,54,94>>,
     salt |-> <<112,97,115,115,119,111,114,100,45,109,105,110,116,58,58,118,49,58,58,103,105,116,104,117,98,46,99,111,109,58,58,120>>,
     iterations |-> 400000,
     block |-> <<115,5,165,133,152,151,218,142,97,45,229,72,22,81,82,208,82,202,23,161,3,129,66,9,42,95,46,253,30,14,147,193>>\o
               <<108,94,21,26,6,64,42,221,124,223,209,164,13,216,149,4,190,163,17,230,64,97,36,53,148,242,61,252,14,128,255,4>>],
    \* "C&6^", "password-mint::v1::github::1", 210000
    [key |-> <<67,38,54,94>>,
     salt |-> <<112,97,115,115,119,111,114,100,45,109,105,110,116,58,58,118,49,58,58,103,105,116,104,117,98,58,58,49>>,
     iterations |-> 210000,
     block |-> <<102,218,206,228,19,150,12,112,183,125,148,8,142,243,227,186,239,81,151,82,28,112,106,70,113,219,65,190,33,211,212,169>>\o
               <<46,51,128,173,181,234,104,210,61,152,70,146,89,11,27,111,202,43,107,58,6,131,214,208,153,124,170,195,29,234,30,166>>],
    \* "C&6^", "password-mint::v1::github::1", 400000
    [key |-> <<67,38,54,94>>,
     salt |-> <<112,97,115,115,119,111,114,100,45,109,105,110,116,58,58,118,49,58,58,103,105,116,104,117,98,58,58,49>>,
     iterations |-> 400000,
     block |-> <<65,19,99,125,12,245,84,49,49,79,192,250,174,246,168,182,56,160,126,44,199,65,242,240,1,144,109,87,19,199,255,227>>\o
               <<11,155,33,21,133,21,8,214,198,55,37,28,51,50,137,122,140,122,62,57,32,204,105,17,176,59,57,134,16,182,102,234>>],
    \* "C&6^", "password-mint::v1::github::2", 210000
    [key |-> <<67,38,54,94>>,
     salt |-> <<112,97,115,115,119,111,114,100,45,109,105,110,116,58,58,118,49,58,58,103,105,116,104,117,98,58,58,50>>,
     iterations |-> 210000,
     block |-> <<167,104,0,87,78,102,74,78,93,115,111,79,65,113,7,224,114,7,135,9,175,122,82,5,0,4,158,214,86,31,32,69>>\o
               <<185,123,54,77,215,14,134,175,176,92,108,50,81,149,85,204,151,4,38,104,62,146,45,72,150,113,17,13,87,214,207,75>>],
    \* "C&6^", "password-mint::v1::github::2", 400000
    [key |-> <<67,38,54,94>>,
     salt |-> <<112,97,115,115,119,111,114,100,45,109,105,110,116,58,58,118,49,58,58,103,105,116,104,117,98,58,58,50>>,
     iterations |-> 400000,
     block |-> <<13,68,77,1,237,222,40,110,6,201,0,33,184,41,206,123,113,113,248,66,90,107,170,215,222,84,180,55,204,5,178,157>>\o
               <<2,98,229,38,140,192,238,89,87,145,75,219,169,95,0,90,190,125,252,9,85,198,231,250,63,132,39,8,20,150,202,47>>],
    \* "C&6^", "password-mint::v1::github::x", 210000
    [key |-> <<67,38,54,94>>,
     salt |-> <<112,97,115,115,119,111,114,100,45,109,105,110,116,58,58,118,49,58,58,103,105,116,104,117,98,58,58,120>>,
     iterations |-> 210000,
     block |-> <<56,8,131,19,20,44,104,34,202,3,18,208,217,167,104,106,202,85,187,129,155,147,73,38,251,115,69,164,90,87,1,190>>\o
               <<224,241,190,238,206,96,190,209,216,68,96,243,212,67,148,158,18,66,50,152,150,133,84,34,51,117,53,216,117,11,80,57>>],
    \* "C&6^", "password-mint::v1::github::x", 400000
    [key |-> <<67,38,54,94>>,
     salt |-> <<112,97,115,115,119,111,114,100,45,109,105,110,116,58,58,118,49,58,58,103,105,116,104,117,98,58,58,120>>,
     iterations |-> 400000,
     block |-> <<200,15,57,229,236,17,223,207,255,21,9,83,9,178,75,24,140,50,53,92,74,50,126,35,59,145,124,136,205,218,177,67>>\o
               <<207,133,51,49,5,210,189,121,57,205,117,58,223,116,206,58,23,117,146,22,65,231,130,185,236,107,216,98,225,74,146,42>>] }

\* crypto.subtle.deriveBits({name: 'PBKDF2', salt, iterations, hash: 'SHA-256'}, keyMaterial, bits)
deriveBits(salt, iterations, keyMaterial, bits) ==
    SubSeq((CHOOSE row \in PBKDF2 : /\ row.key = keyMaterial
                                      /\ row.salt = salt
                                      /\ row.iterations = iterations).block, 1, bits \div 8)

deriveBytes(masterPhrase, salt, iterations) ==
    the({deriveBits(saltBytes, iterations, keyMaterial, DERIVED_BYTES * 8) :
            saltBytes \in {stringToBytes(salt)}, keyMaterial \in {stringToBytes(masterPhrase)}})

-----------------------------------------------------------------------------
(* Values the user enters                                                   *)

MaxRequests == 2   \* derivations started per session
MaxEdits == 3      \* edits, copies and focus events of the user per session

SiteInputs == {<<"G","i","t","H","u","b",".","c","o","m">>,
               <<"g","i","t","h","u","b">>,
               <<"h","t","t","p","s",":","/","/">>}
PhraseInputs == {<<"a"," ","b">>, <<"c">>, <<" ">>}
VersionInputs == {<<>>, <<"2">>, <<"x">>}
LengthInputs == {<<"1","2">>, <<"1","6">>}
LevelInputs == {"standard", "high"}
CharSetBoxes == {"useUpper", "useLower", "useDigits", "useSymbols"}
ExcludeBoxes == {"excludeAmbiguous", "excludeProblematic"}

Digits == <<"0","1","2","3","4","5","6","7","8","9">>

\* parseInt(s, 10) for a string of decimal digits
RECURSIVE parseDigits(_, _)
parseDigits(acc, s) == IF s = <<>> \/ IndexOf(Digits, Head(s)) = 0 THEN acc
                       ELSE parseDigits((acc * 10) + IndexOf(Digits, Head(s)) - 1, Tail(s))

parseInt(s) == parseDigits(0, s)

-----------------------------------------------------------------------------
(* The page: state after the script has run init()                          *)

Idle == [fn |-> "none"]

InitialElements ==
    [site |-> <<>>, masterPhrase |-> <<>>, version |-> <<"1">>,
     length |-> <<"1","6">>, lengthValue |-> <<"1","6">>, securityLevel |-> "standard",
     useUpper |-> TRUE, useLower |-> TRUE, useDigits |-> TRUE, useSymbols |-> TRUE,
     excludeAmbiguous |-> FALSE, excludeProblematic |-> FALSE,
     rememberPhrase |-> FALSE, rememberWarning |-> "none",
     generatedPassword |-> <<>>, outputSection |-> "none", normalizedSite |-> <<>>,
     autoClearNotice |-> "none", generateBtnDisabled |-> FALSE]

\* An init() that would register the listeners even without WebCrypto
PageListening(maxRequests, maxEdits) ==
    /\ cryptoOk \in BOOLEAN
    /\ listening = TRUE
    /\ elements = [InitialElements EXCEPT !.generateBtnDisabled = ~cryptoOk]
    /\ autoClearTimeout = NoTimer
    /\ rememberedPhrase = NoPhrase
    /\ timers = {}
    /\ calls = {}
    /\ requests = 0
    /\ budget = [requests |-> maxRequests, edits |-> maxEdits]
    /\ marked = NoGeneration
    /\ last = NoGeneration
    /\ clipboard = 0
    /\ forgotten = [count |-> 0, requests |-> 0, clearAlls |-> 0, clearedAt |-> 0]

\* init(): without WebCrypto the button is disabled and no listener is registered.
Page(maxRequests, maxEdits) ==
    /\ cryptoOk \in BOOLEAN
    /\ listening = cryptoOk
    /\ elements = [InitialElements EXCEPT !.generateBtnDisabled = ~cryptoOk]
    /\ autoClearTimeout = NoTimer
    /\ rememberedPhrase = NoPhrase
    /\ timers = {}
    /\ calls = {}
    /\ requests = 0
    /\ budget = [requests |-> maxRequests, edits |-> maxEdits]
    /\ marked = NoGeneration
    /\ last = NoGeneration
    /\ clipboard = 0
    /\ forgotten = [count |-> 0, requests |-> 0, clearAlls |-> 0, clearedAt |-> 0]

PageLoaded(maxRequests, maxEdits) == Page(maxRequests, maxEdits) /\ probe = Idle

Init == PageLoaded(MaxRequests, MaxEdits)

\* The settings generatePasswordFromBytes reads from the form.
boxesOf(els) == <<els.useUpper, els.useLower, els.useDigits, els.useSymbols,
                  els.excludeAmbiguous, els.excludeProblematic>>

\* What the user has entered in the form.
inputsOf(els) == [site |-> els.site, masterPhrase |-> els.masterPhrase, version |-> els.version,
                  length |-> els.length, securityLevel |-> els.securityLevel,
                  boxes |-> boxesOf(els), rememberPhrase |-> els.rememberPhrase]

-----------------------------------------------------------------------------
(* Auto-clear timer                                                         *)

newTimer(pending) == CHOOSE t \in 1..(Cardinality(pending) + 1) : t \notin pending

\* clearAutoClearTimer(): the timers left pending
afterClearTimer == IF autoClearTimeout # NoTimer THEN timers \ {autoClearTimeout} ELSE timers

\* startAutoClearTimer(), with updateAutoClearNotice()
StartAutoClearTimer ==
    /\ timers' = afterClearTimer \cup {newTimer(afterClearTimer)}
    /\ autoClearTimeout' = newTimer(afterClearTimer)

\* clearOutput() applied to the form els
clearedOutput(els) == [els EXCEPT !.generatedPassword = <<>>, !.outputSection = "none",
                                  !.autoClearNotice = "none"]

\* clearOutput(): its clearAutoClearTimer(), t being the timer that runs it (0: none)
ClearOutputTimer(t) ==
    /\ timers' = afterClearTimer \ {t}
    /\ autoClearTimeout' = NoTimer

-----------------------------------------------------------------------------
(* The user changes the form                                                *)

Edit(els) ==
    /\ budget.edits > 0
    /\ budget' = [budget EXCEPT !.edits = @ - 1]
    /\ elements' = els
    /\ UNCHANGED <<autoClearTimeout, timers, calls, cryptoOk, listening,
                   requests, marked, last, clipboard, probe>>

SetSite == \E v \in SiteInputs :
    /\ Edit([elements EXCEPT !.site = v])
    /\ UNCHANGED <<rememberedPhrase, forgotten>>

SetMasterPhrase == \E v \in PhraseInputs :
    /\ Edit([elements EXCEPT !.masterPhrase = v])
    /\ UNCHANGED <<rememberedPhrase, forgotten>>

SetVersion == \E v \in VersionInputs :
    /\ Edit([elements EXCEPT !.version = v])
    /\ UNCHANGED <<rememberedPhrase, forgotten>>

\* the 'input' listener of the length slider
SetLength == \E v \in LengthInputs :
    /\ Edit([elements EXCEPT !.length = v, !.lengthValue = IF listening THEN v ELSE @])
    /\ UNCHANGED <<rememberedPhrase, forgotten>>

SetSecurityLevel == \E v \in LevelInputs :
    /\ Edit([elements EXCEPT !.securityLevel = v])
    /\ UNCHANGED <<rememberedPhrase, forgotten>>

\* the 'change' listener of the four character-set checkboxes
ToggleCharSet == \E box \in CharSetBoxes :
    LET toggled == [elements EXCEPT ![box] = ~@]
        anyChecked == \E b \in CharSetBoxes : toggled[b]
    IN  /\ Edit(IF listening /\ ~anyChecked THEN [toggled EXCEPT ![box] = TRUE] ELSE toggled)
        /\ UNCHANGED <<rememberedPhrase, forgotten>>

ToggleExclude == \E box \in ExcludeBoxes :
    /\ Edit([elements EXCEPT ![box] = ~@])
    /\ UNCHANGED <<rememberedPhrase, forgotten>>

\* the 'change' listener of the remember checkbox
ToggleRemember ==
    LET checked == ~elements.rememberPhrase
    IN  /\ Edit([elements EXCEPT !.rememberPhrase = checked,
                                 !.rememberWarning = IF ~listening THEN @
                                                     ELSE IF checked THEN "block" ELSE "none"])
        /\ rememberedPhrase' = IF listening /\ ~checked THEN NoPhrase ELSE rememberedPhrase
        /\ UNCHANGED forgotten

\* the 'click' listener of Forget Now
ForgetNow ==
    /\ listening
    /\ Edit([elements EXCEPT !.masterPhrase = <<>>, !.rememberPhrase = FALSE,
                             !.rememberWarning = "none"])
    /\ rememberedPhrase' = NoPhrase
    /\ forgotten' = [forgotten EXCEPT !.count = @ + 1, !.requests = requests]

\* A clearAll() that would uncheck the box but keep the remembered phrase
ClearAllKeepsPhrase ==
    /\ listening
    /\ budget.edits > 0
    /\ budget' = [budget EXCEPT !.edits = @ - 1]
    /\ elements' = [clearedOutput(elements) EXCEPT !.site = <<>>, !.masterPhrase = <<>>,
                       !.version = <<"1">>, !.rememberPhrase = FALSE, !.rememberWarning = "none"]
    /\ ClearOutputTimer(0)
    /\ forgotten' = [count |-> forgotten.count + 1, requests |-> requests,
                     clearAlls |-> forgotten.clearAlls + 1, clearedAt |-> requests]
    /\ UNCHANGED <<rememberedPhrase, calls, cryptoOk, listening, requests, marked, last,
                   clipboard, probe>>

\* clearAll()
ClearAll ==
    /\ listening
    /\ budget.edits > 0
    /\ budget' = [budget EXCEPT !.edits = @ - 1]
    /\ elements' = [clearedOutput(elements) EXCEPT !.site = <<>>, !.masterPhrase = <<>>,
                       !.version = <<"1">>, !.rememberPhrase = FALSE, !.rememberWarning = "none"]
    /\ ClearOutputTimer(0)
    /\ rememberedPhrase' = NoPhrase
    /\ forgotten' = [count |-> forgotten.count + 1, requests |-> requests,
                     clearAlls |-> forgotten.clearAlls + 1, clearedAt |-> requests]
    /\ UNCHANGED <<calls, cryptoOk, listening, requests, marked, last, clipboard, probe>>

-----------------------------------------------------------------------------
(* generatePassword                                                         *)

iterationsOf(securityLevel) == IF securityLevel = "high" THEN ITERATIONS_high ELSE ITERATIONS_standard

\* const salt = CONFIG.SALT_PREFIX + normalizedSite + '::' + version
saltOf(normalizedSite, version) == SALT_PREFIX \o normalizedSite \o <<":", ":">> \o version

\* elements.version.value, without the default
enteredVersion(els) == els.version

\* elements.version.value || '1'
versionOf(els) == IF els.version = <<>> THEN <<"1">> ELSE els.version

\* rememberPhrase.checked && rememberedPhrase ? rememberedPhrase : masterPhrase.value
phraseOf(els, remembered) ==
    IF els.rememberPhrase /\ remembered # NoPhrase /\ remembered # <<>> THEN remembered
    ELSE els.masterPhrase

\* The locals of generatePassword when it reaches await deriveBytes(...)
\* (form: what the form held at that moment, kept for reference).
activation(id, els, remembered) ==
    [id |-> id,
     site |-> trim(els.site),
     masterPhrase |-> phraseOf(els, remembered),
     version |-> versionOf(els),
     length |-> parseInt(els.length),
     hardenedPhrase |-> hardenPhrase(phraseOf(els, remembered)),
     normalizedSite |-> normalizeSite(trim(els.site)),
     salt |-> saltOf(normalizeSite(trim(els.site)), versionOf(els)),
     iterations |-> iterationsOf(els.securityLevel),
     form |-> inputsOf(els)]

\* generatePassword() up to its first await: validation, then deriveBytes is called
GeneratePassword ==
    IF trim(elements.site) = <<>> \/ phraseOf(elements, rememberedPhrase) = <<>>
    THEN UNCHANGED vars
    ELSE /\ budget.requests > 0
         /\ budget' = [budget EXCEPT !.requests = @ - 1]
         /\ requests' = requests + 1
         /\ calls' = calls \cup {activation(requests + 1, elements, rememberedPhrase)}
         /\ elements' = [elements EXCEPT !.generateBtnDisabled = TRUE]
         /\ UNCHANGED <<autoClearTimeout, rememberedPhrase, timers, cryptoOk, listening,
                        marked, last, clipboard, forgotten, probe>>

\* the 'submit' listener of the form; a disabled submit button submits nothing
Submit == listening /\ ~elements.generateBtnDisabled /\ GeneratePassword

\* the 'click' listener of Regenerate, a button inside the output section
Regenerate == listening /\ elements.outputSection = "block" /\ GeneratePassword

\* the 'keydown' listener of the document: Ctrl+Enter
CtrlEnter == listening /\ GeneratePassword

\* A generation that has completed: what the form held when it was
\* requested, whether its settings were still the same when it completed,
\* and the password it displayed.
completed(c, password) ==
    [form |-> c.form, settled |-> boxesOf(elements) = c.form.boxes, id |-> c.id,
     password |-> password]

\* generatePassword() after deriveBytes has resolved, for the activation c
\* (mark: this generation is the one kept for comparison)
Resolve(c, mark) ==
    LET derivedBytes == deriveBytes(c.hardenedPhrase, c.salt, c.iterations)
        result == generatePasswordFromBytes(derivedBytes, c.length, elements)
    IN  /\ calls' = calls \ {c}
        /\ IF result.ok
           THEN /\ elements' = [elements EXCEPT
                       !.generatedPassword = result.value,
                       !.outputSection = "block",
                       !.normalizedSite = c.normalizedSite,
                       !.masterPhrase = IF elements.rememberPhrase THEN @ ELSE <<>>,
                       !.autoClearNotice = "block",
                       !.generateBtnDisabled = FALSE]
                /\ rememberedPhrase' = IF elements.rememberPhrase THEN c.masterPhrase
                                       ELSE rememberedPhrase
                /\ StartAutoClearTimer
                /\ last' = completed(c, result.value)
                /\ marked' = IF mark THEN completed(c, result.value) ELSE marked
           ELSE /\ elements' = [elements EXCEPT !.generateBtnDisabled = FALSE]
                /\ ~mark
                /\ UNCHANGED <<rememberedPhrase, autoClearTimeout, timers, last, marked>>
        /\ UNCHANGED <<cryptoOk, listening, requests, budget, clipboard, forgotten, probe>>

DeriveOk == \E c \in calls : Resolve(c, FALSE)

\* A catch block that would also empty the master-phrase field
DeriveFailClearsField == \E c \in calls :
    /\ calls' = calls \ {c}
    /\ elements' = [elements EXCEPT !.generateBtnDisabled = FALSE, !.masterPhrase = <<>>]
    /\ UNCHANGED <<autoClearTimeout, rememberedPhrase, timers, cryptoOk, listening,
                   requests, budget, marked, last, clipboard, forgotten, probe>>

\* generatePassword() after deriveBytes has rejected: catch, then finally
DeriveFail == \E c \in calls :
    /\ calls' = calls \ {c}
    /\ elements' = [elements EXCEPT !.generateBtnDisabled = FALSE]
    /\ UNCHANGED <<autoClearTimeout, rememberedPhrase, timers, cryptoOk, listening,
                   requests, budget, marked, last, clipboard, forgotten, probe>>

\* A clearOutput() that would hide the output section without emptying the field
TimerFireHidesOnly == \E t \in timers :
    /\ elements' = [elements EXCEPT !.outputSection = "none", !.autoClearNotice = "none"]
    /\ ClearOutputTimer(t)
    /\ UNCHANGED <<rememberedPhrase, calls, cryptoOk, listening, requests, budget,
                   marked, last, clipboard, forgotten, probe>>

\* the auto-clear timer fires: clearOutput()
TimerFire == \E t \in timers :
    /\ elements' = clearedOutput(elements)
    /\ ClearOutputTimer(t)
    /\ UNCHANGED <<rememberedPhrase, calls, cryptoOk, listening, requests, budget,
                   marked, last, clipboard, forgotten, probe>>

\* the 'focus' listener of the password field
FocusPassword ==
    /\ listening
    /\ elements.outputSection # "none"
    /\ budget.edits > 0
    /\ budget' = [budget EXCEPT !.edits = @ - 1]
    /\ StartAutoClearTimer
    /\ elements' = [elements EXCEPT !.autoClearNotice = "block"]
    /\ UNCHANGED <<rememberedPhrase, calls, cryptoOk, listening, requests,
                   marked, last, clipboard, forgotten, probe>>

\* copyPassword() up to its await: the 'click' listener of Copy, a button
\* inside the output section (its two-second "Copied!" label is not modelled)
CopyPassword ==
    /\ listening
    /\ elements.outputSection = "block"
    /\ budget.edits > 0
    /\ budget' = [budget EXCEPT !.edits = @ - 1]
    /\ elements.generatedPassword # <<>>
    /\ clipboard' = clipboard + 1
    /\ UNCHANGED <<elements, autoClearTimeout, rememberedPhrase, timers, calls, cryptoOk,
                   listening, requests, marked, last, forgotten, probe>>

\* copyPassword() after writeText has resolved: startAutoClearTimer()
CopyOk ==
    /\ clipboard > 0
    /\ clipboard' = clipboard - 1
    /\ StartAutoClearTimer
    /\ elements' = [elements EXCEPT !.autoClearNotice = "block"]
    /\ UNCHANGED <<rememberedPhrase, calls, cryptoOk, listening, requests, budget,
                   marked, last, forgotten, probe>>

\* copyPassword() after writeText has rejected: the execCommand fallback
CopyFail ==
    /\ clipboard > 0
    /\ clipboard' = clipboard - 1
    /\ UNCHANGED <<elements, autoClearTimeout, rememberedPhrase, timers, calls, cryptoOk,
                   listening, requests, budget, marked, last, forgotten, probe>>

Next ==
    \/ SetSite \/ SetMasterPhrase \/ SetVersion \/ SetLength \/ SetSecurityLevel
    \/ ToggleCharSet \/ ToggleExclude \/ ToggleRemember \/ ForgetNow \/ ClearAll
    \/ Submit \/ Regenerate \/ CtrlEnter
    \/ DeriveOk \/ DeriveFail \/ TimerFire \/ FocusPassword
    \/ CopyPassword \/ CopyOk \/ CopyFail

Spec == Init /\ [][Next]_vars

\* The handlers that start, complete or clear a generation, and the edits of
\* the fields and of the remember checkbox that they read: the session
\* without the changes of password settings.
NextSession ==
    \/ SetSite \/ SetMasterPhrase \/ ToggleRemember \/ ForgetNow \/ ClearAll
    \/ Submit \/ Regenerate \/ CtrlEnter
    \/ DeriveOk \/ DeriveFail \/ TimerFire \/ FocusPassword
    \/ CopyPassword \/ CopyOk \/ CopyFail

SpecSession == Init /\ [][NextSession]_vars

-----------------------------------------------------------------------------
(* Direct calls of the pure functions                                       *)
(* probe holds one call: the function, its arguments, and, once it has      *)
(* returned, its results.  The page is loaded and nobody touches the form.  *)

probeCall(fn, args) == [fn |-> fn, args |-> args, returned |-> FALSE, out |-> <<>>]

Returned(fn) == probe.fn = fn /\ probe.returned

-----------------------------------------------------------------------------
(* normalizeSite, called on two inputs                                      *)

SiteExamples ==
    {<<"w","w","w",".","w","w","w",".","e","x","a","m","p","l","e",".","c","o","m">>, <<"A","p","p","?","x","#","y">>,
     <<"G","I","T","H","U","B",".","C","O","M">>, <<"h","t","t","p","s",":","/","/","w","w","w",".","g","i","t","h","u","b",".","c","o","m","/","s","e","t","t","i","n","g","s">>, <<"h","t","t","p","s",":","/","/","w","w","w",".","G","i","t","H","u","b",".","c","o","m","/","s","e","t","t","i","n","g","s">>,
     <<"h","t","t","p","s",":","/","/","m","a","i","l",".","g","o","o","g","l","e",".","c","o","m","/","i","n","b","o","x">>, <<"G","i","t","H","u","b">>, <<"A","p","p","l","e">>, <<"G","i","t","H","u","b",".","c","o","m">>, <<"g","i","t","h","u","b">>,
     <<"g","i","t","h","u","b",".","c","o","m">>, <<" ","h","t","t","p",":","/","/","W","W","W",".","E","x","a","m","p","l","e",".","o","r","g",":","8","0","8","0","/","a","?","b","#","c"," ">>, <<"h","t","t","p","s",":","/","/">>, <<"l","o","c","a","l","h","o","s","t",":","3","0","0","0">>,
     <<"m","y"," ","b","a","n","k">>}

InitSite == Page(0, 0) /\ cryptoOk /\ probe \in {probeCall("normalizeSite", <<a, b>>) : a, b \in SiteExamples}

NormalizeSite ==
    /\ probe.fn = "normalizeSite" /\ ~probe.returned
    /\ probe' = [probe EXCEPT !.returned = TRUE,
                              !.out = <<normalizeSite(probe.args[1]), normalizeSite(probe.args[2])>>]
    /\ UNCHANGED uiVars

SpecSite == InitSite /\ [][NormalizeSite]_vars

\* C7: normalizeSite maps "GITHUB.COM", "https://www.github.com/settings" and
\* "https://www.GitHub.com/settings" to "github.com", "https://mail.google.com/inbox"
\* to "mail.google.com", and the bare names "GitHub" and "Apple" to "github" and "apple".
C7_SiteExamples ==
    Returned("normalizeSite") =>
        /\ probe.args[1] \in {<<"G","I","T","H","U","B",".","C","O","M">>, <<"h","t","t","p","s",":","/","/","w","w","w",".","g","i","t","h","u","b",".","c","o","m","/","s","e","t","t","i","n","g","s">>,
                              <<"h","t","t","p","s",":","/","/","w","w","w",".","G","i","t","H","u","b",".","c","o","m","/","s","e","t","t","i","n","g","s">>} => probe.out[1] = <<"g","i","t","h","u","b",".","c","o","m">>
        /\ probe.args[1] = <<"h","t","t","p","s",":","/","/","m","a","i","l",".","g","o","o","g","l","e",".","c","o","m","/","i","n","b","o","x">> => probe.out[1] = <<"m","a","i","l",".","g","o","o","g","l","e",".","c","o","m">>
        /\ probe.args[1] = <<"G","i","t","H","u","b">> => probe.out[1] = <<"g","i","t","h","u","b">>
        /\ probe.args[1] = <<"A","p","p","l","e">> => probe.out[1] = <<"a","p","p","l","e">>

\* normalizeSite has returned "github.com" for "https://www.GitHub.com/settings"
\* and "mail.google.com" for "https://mail.google.com/inbox".
C7_Reached ==
    /\ Returned("normalizeSite")
    /\ probe.args = <<<<"h","t","t","p","s",":","/","/","w","w","w",".","G","i","t","H","u","b",".","c","o","m","/","s","e","t","t","i","n","g","s">>, <<"h","t","t","p","s",":","/","/","m","a","i","l",".","g","o","o","g","l","e",".","c","o","m","/","i","n","b","o","x">>>>
    /\ probe.out = <<<<"g","i","t","h","u","b",".","c","o","m">>, <<"m","a","i","l",".","g","o","o","g","l","e",".","c","o","m">>>>

\* C8 as stated: "GitHub.com" and "github" produce the same result, hence the same salt.
C8_SameResult ==
    (Returned("normalizeSite") /\ probe.args = <<<<"G","i","t","H","u","b",".","c","o","m">>, <<"g","i","t","h","u","b">>>>) =>
        /\ probe.out[1] = probe.out[2]
        /\ saltOf(probe.out[1], <<"1">>) = saltOf(probe.out[2], <<"1">>)

\* C8 as amended: "GitHub.com" and "github.com" produce the same result, "github.com",
\* and "GitHub" and "github" produce the same result, "github"; the results of
\* "GitHub.com" and "github" differ, and so do their salts.
C8_SameHostSameResult ==
    Returned("normalizeSite") =>
        /\ probe.args = <<<<"G","i","t","H","u","b",".","c","o","m">>, <<"g","i","t","h","u","b",".","c","o","m">>>> => probe.out = <<<<"g","i","t","h","u","b",".","c","o","m">>, <<"g","i","t","h","u","b",".","c","o","m">>>>
        /\ probe.args = <<<<"G","i","t","H","u","b">>, <<"g","i","t","h","u","b">>>> => probe.out = <<<<"g","i","t","h","u","b">>, <<"g","i","t","h","u","b">>>>
        /\ probe.args = <<<<"G","i","t","H","u","b",".","c","o","m">>, <<"g","i","t","h","u","b">>>> =>
               /\ probe.out = <<<<"g","i","t","h","u","b",".","c","o","m">>, <<"g","i","t","h","u","b">>>>
               /\ saltOf(probe.out[1], <<"1">>) # saltOf(probe.out[2], <<"1">>)

\* normalizeSite has returned different results for "GitHub.com" and "github".
C8_Reached ==
    /\ Returned("normalizeSite")
    /\ probe.args = <<<<"G","i","t","H","u","b",".","c","o","m">>, <<"g","i","t","h","u","b">>>>
    /\ probe.out[1] # probe.out[2]

-----------------------------------------------------------------------------
(* hardenPhrase, called on two raw phrases                                  *)

PhraseExamples ==
    {<<"T","u","e","s","d","a","y">>, <<"M","y"," ","P","h","r","a","s","e">>, <<" "," ","m","y"," "," "," ","p","h","r","a","s","e"," "," ">>, <<"m","y"," ","p","h","r","a","s","e">>, <<"M","Y","\t","P","H","R","A","S","E">>, <<"m","y"," ","i","p","h","o","n","e"," ","p","u","r","c","h","a","s","e">>,
     <<" ","M","y"," "," ","i","P","h","o","n","e"," ","P","U","R","C","H","A","S","E">>, <<"m","y"," ","p","h","r","a","s","e","s">>, <<"p","u","r","p","l","e"," ","e","l","e","p","h","a","n","t"," ","d","a","n","c","e","s"," ","t","u","e","s","d","a","y">>,
     <<"c","o","r","r","e","c","t"," ","h","o","r","s","e"," ","b","a","t","t","e","r","y"," ","s","t","a","p","l","e">>, <<"x"," ","y"," ","z">>, <<"a"," ","b">>, <<"a">>, <<"c">>, <<" ">>, <<>>}

InitPhrase == Page(0, 0) /\ cryptoOk /\ probe \in {probeCall("hardenPhrase", <<a, b>>) : a, b \in PhraseExamples}

HardenPhrase ==
    /\ probe.fn = "hardenPhrase" /\ ~probe.returned
    /\ probe' = [probe EXCEPT !.returned = TRUE,
                              !.out = <<hardenPhrase(probe.args[1]), hardenPhrase(probe.args[2])>>]
    /\ UNCHANGED uiVars

SpecPhrase == InitPhrase /\ [][HardenPhrase]_vars

\* C4: hardenPhrase returns the same hardened phrase for any two raw phrases with
\* the same normalization (trim, lowercase, whitespace runs collapsed to one space);
\* in particular "My Phrase" and "  my   phrase  " harden identically.
C4_SameNormalizationSameHardening ==
    Returned("hardenPhrase") =>
        /\ normalizePhrase(probe.args[1]) = normalizePhrase(probe.args[2]) => probe.out[1] = probe.out[2]
        /\ probe.args = <<<<"M","y"," ","P","h","r","a","s","e">>, <<" "," ","m","y"," "," "," ","p","h","r","a","s","e"," "," ">>>> => probe.out[1] = probe.out[2]

\* hardenPhrase has returned for "My Phrase" and "  my   phrase  ", two different
\* raw phrases, and for both the result is a non-empty hardening of "my phrase".
C4_Reached ==
    /\ Returned("hardenPhrase")
    /\ probe.args = <<<<"M","y"," ","P","h","r","a","s","e">>, <<" "," ","m","y"," "," "," ","p","h","r","a","s","e"," "," ">>>>
    /\ probe.out[1] = probe.out[2]
    /\ Len(probe.out[1]) > Len(<<"m","y"," ","p","h","r","a","s","e">>)

\* Bits k..k+2 of the 32-bit seed: (Seed >> k) mod 8 as an index 0..7.
seedWindow(seed, k) == uMod(uFloorDiv(seed, Pow2(k)), 8)

\* C5: for every non-empty normalized phrase, whatever its 32-bit seed, hardenPhrase
\* returns the capitalized words joined by single spaces followed by exactly three
\* characters: the symbol of "!@#$%^&*" at index Seed mod 8, the digit of "23456789"
\* at index (Seed >> 4) mod 8 and the symbol of "!@#$%^&*" at index (Seed >> 8) mod 8.
C5_SuffixIsSymbolDigitSymbol ==
    (Returned("hardenPhrase") /\ normalizePhrase(probe.args[1]) # <<>>) =>
        LET normalized == normalizePhrase(probe.args[1])
            seed == seedOf(normalized)
        IN  probe.out[1] = join(capitalizeWords(split(normalized, " "), seed), " ")
                           \o <<SuffixSymbols[uMod(seed, 8) + 1],
                                SuffixDigits[seedWindow(seed, 4) + 1],
                                SuffixSymbols[seedWindow(seed, 8) + 1]>>

\* C6: hardenPhrase("my iphone purchase") returns exactly "my IPHONE purchase!7@".
C6_DocumentedExample ==
    (Returned("hardenPhrase") /\ probe.args[1] = <<"m","y"," ","i","p","h","o","n","e"," ","p","u","r","c","h","a","s","e">>) =>
        probe.out[1] = <<"m","y"," ","I","P","H","O","N","E"," ","p","u","r","c","h","a","s","e","!","7","@">>

-----------------------------------------------------------------------------
(* generatePasswordFromBytes, called on derived bytes, a length and the     *)
(* six checkboxes                                                           *)

MinLength == 12   \* the length slider: 12..64
MaxLength == 64
MaxPattern == 2   \* byte patterns tried, besides all-zero and all-255

\* 64 bytes that depend on k
bytePattern(k) == SubSeq([i \in 1..DERIVED_BYTES |-> ((((k * 83) + 1) * i * i) + (k * 7) + (i \div 3)) % 256],
                         1, DERIVED_BYTES)

BytePatterns == {bytePattern(k) : k \in 0..MaxPattern}
                \cup {SubSeq([i \in 1..DERIVED_BYTES |-> b], 1, DERIVED_BYTES) : b \in {0, 255}}

Checkboxes == [CharSetBoxes \cup ExcludeBoxes -> BOOLEAN]

\* The form with the six checkboxes set as in boxes.
formWith(boxes) == [b \in DOMAIN InitialElements |->
                       IF b \in DOMAIN boxes THEN boxes[b] ELSE InitialElements[b]]

InitAssemble ==
    /\ Page(0, 0) /\ cryptoOk
    /\ probe \in {probeCall("generatePasswordFromBytes",
                            [derivedBytes |-> d, length |-> n, boxes |-> x]) :
                     d \in BytePatterns, n \in 0..MaxLength, x \in Checkboxes}

GeneratePasswordFromBytes ==
    /\ probe.fn = "generatePasswordFromBytes" /\ ~probe.returned
    /\ probe' = [probe EXCEPT !.returned = TRUE,
                              !.out = generatePasswordFromBytes(probe.args.derivedBytes, probe.args.length,
                                                                formWith(probe.args.boxes))]
    /\ UNCHANGED uiVars

SpecAssemble == InitAssemble /\ [][GeneratePasswordFromBytes]_vars

\* The character classes the checkboxes enable.
enabledClasses(boxes) == {b \in CharSetBoxes : boxes[b]}

Range(s) == {s[i] : i \in 1..Len(s)}

\* C1: for every 64-byte DerivedBytes, every length L in 12..64 and every non-empty
\* choice of enabled classes, with any setting of the two exclusion flags,
\* generatePasswordFromBytes returns a string of exactly L characters.
C1_LengthExact ==
    (/\ Returned("generatePasswordFromBytes")
     /\ probe.args.length \in MinLength..MaxLength
     /\ enabledClasses(probe.args.boxes) # {})
    => (probe.out.ok /\ Len(probe.out.value) = probe.args.length)

\* A password of 64 characters has been returned with the symbols alone enabled and
\* both exclusion flags set.
C1_Reached ==
    /\ Returned("generatePasswordFromBytes")
    /\ probe.args.length = MaxLength
    /\ enabledClasses(probe.args.boxes) = {"useSymbols"}
    /\ probe.args.boxes["excludeAmbiguous"] /\ probe.args.boxes["excludeProblematic"]
    /\ probe.out.ok /\ Len(probe.out.value) = MaxLength

\* C2: for every DerivedBytes and every L not smaller than the number of enabled
\* pools, the password contains at least one character of each enabled, non-empty
\* per-class pool, also after the shuffle and when derived bytes are reused.
C2_EveryClassPresent ==
    (/\ Returned("generatePasswordFromBytes")
     /\ enabledClasses(probe.args.boxes) # {}
     /\ probe.args.length >= Cardinality(enabledClasses(probe.args.boxes)))
    => /\ probe.out.ok
       /\ \A k \in 1..Len(getCharacterPools(formWith(probe.args.boxes))) :
              Range(probe.out.value) \cap Range(getCharacterPools(formWith(probe.args.boxes))[k].chars) # {}

\* A password of 64 characters (more words drawn than the derived bytes hold) has
\* been returned with the four classes enabled, and it holds a digit.
C2_Reached ==
    /\ Returned("generatePasswordFromBytes")
    /\ probe.args.length = MaxLength
    /\ Cardinality(enabledClasses(probe.args.boxes)) = 4
    /\ probe.out.ok /\ probe.out.words > DERIVED_BYTES \div 2
    /\ Range(probe.out.value) \cap Range(CHAR_SETS.digits) # {}

\* C10: generatePasswordFromBytes signals 'No character types selected' when the
\* combined pool is empty and 'Password length too short for selected character
\* types' when the number of enabled non-empty pools exceeds L, returning no
\* password in either case; it signals neither when the combined pool is non-empty
\* and the pool count is at most L.
C10_ErrorBoundaries ==
    Returned("generatePasswordFromBytes") =>
        LET count == Cardinality(enabledClasses(probe.args.boxes))
        IN  /\ count = 0 => probe.out = [ok |-> FALSE, error |-> NoCharacterTypes]
            /\ (count > 0 /\ count > probe.args.length) =>
                   probe.out = [ok |-> FALSE, error |-> LengthTooShort]
            /\ (count > 0 /\ count <= probe.args.length) => probe.out.ok

\* The length-too-short error has been signalled for L = 3 with four classes enabled.
C10_Reached ==
    /\ Returned("generatePasswordFromBytes")
    /\ probe.args.length = 3
    /\ Cardinality(enabledClasses(probe.args.boxes)) = 4
    /\ probe.out = [ok |-> FALSE, error |-> LengthTooShort]

-----------------------------------------------------------------------------
(* The salt of a request: a session of the handlers that write the site,    *)
(* the phrase or the version field, of the three ways to request a          *)
(* generation, and of the completions.                                      *)

NextSalt ==
    \/ SetSite \/ SetMasterPhrase \/ SetVersion \/ ClearAll
    \/ Submit \/ Regenerate \/ CtrlEnter
    \/ DeriveOk \/ DeriveFail

SpecSalt == Init /\ [][NextSalt]_vars

\* C9 as stated: the salt passed to key derivation is exactly "password-mint::v1::"
\* + NormalizedSite + "::" + version for the version string entered, with no
\* substitution: requests for the same site with different entered versions (the
\* empty version and "1" in particular) have different salts.
C9_SaltOfEnteredVersion ==
    /\ \A c \in calls : c.salt = SALT_PREFIX \o c.normalizedSite \o <<":", ":">> \o c.form.version
    /\ \A c1, c2 \in calls :
           (c1.normalizedSite = c2.normalizedSite /\ c1.form.version # c2.form.version)
           => c1.salt # c2.salt

\* The version of a request: the one entered, "1" when none is entered.
effectiveVersion(v) == IF v = <<>> THEN <<"1">> ELSE v

\* C9 as amended: the salt passed to key derivation is exactly "password-mint::v1::"
\* + NormalizedSite + "::" + v, where v is the version string entered, not validated,
\* or "1" when the entered version is empty; for the same site two requests have the
\* same salt exactly when they have the same v, so the empty version and "1" give
\* the same salt and any other two versions different salts.
C9_SaltOfEffectiveVersion ==
    /\ \A c \in calls :
           c.salt = SALT_PREFIX \o c.normalizedSite \o <<":", ":">> \o effectiveVersion(c.form.version)
    /\ \A c1, c2 \in calls :
           c1.normalizedSite = c2.normalizedSite
           => (c1.salt = c2.salt <=> effectiveVersion(c1.form.version) = effectiveVersion(c2.form.version))

\* Two requests for the same site are pending, one entered with the empty
\* version and one with "1", and their salts are equal.
C9_Reached ==
    \E c1, c2 \in calls :
        /\ c1.form.version = <<>> /\ c2.form.version = <<"1">>
        /\ c1.normalizedSite = c2.normalizedSite
        /\ c1.salt = c2.salt

-----------------------------------------------------------------------------
(* Generations compared: a session in which the user enters site and phrase, *)
(* ticks the remember checkbox and presses Ctrl+Enter,                       *)
(* and in which one completed generation is kept in marked and compared      *)
(* with the later ones.                                                      *)

DeriveOkMarking == \E c \in calls : \E mark \in BOOLEAN :
    /\ mark => marked = NoGeneration
    /\ Resolve(c, mark)

InitRemember == PageLoaded(MaxRequests + 1, MaxEdits + 1) /\ cryptoOk

NextRemember == SetSite \/ SetMasterPhrase \/ ToggleRemember \/ CtrlEnter \/ DeriveOkMarking

SpecRemember == InitRemember /\ [][NextRemember]_vars

\* C3: for a fixed set of inputs (phrase, site, version, length, security level,
\* enabled classes, exclusion flags) and a deterministic key derivation, any two
\* invocations of generatePassword, sequential or overlapping, yield the same
\* password.  The two invocations are marked and last; both were requested with the
\* same values in the form, the phrase in the field not blank, and completed with
\* the checkboxes as requested.
C3_SameInputsSamePassword ==
    (/\ marked # NoGeneration /\ last # NoGeneration
     /\ marked.settled /\ last.settled
     /\ marked.form = last.form
     /\ normalizePhrase(last.form.masterPhrase) # <<>>)
    => marked.password = last.password

-----------------------------------------------------------------------------
(* C11: a generation displays all of its result or nothing                  *)

\* The step displays the password of the activation c.
displays(c) ==
    /\ Len(elements'.generatedPassword) = c.length
    /\ elements'.outputSection = "block"
    /\ elements'.normalizedSite = c.normalizedSite

\* The step leaves the output, the phrase and the timer as they were.
outputUntouched ==
    /\ elements'.generatedPassword = elements.generatedPassword
    /\ elements'.normalizedSite = elements.normalizedSite
    /\ elements'.masterPhrase = elements.masterPhrase
    /\ rememberedPhrase' = rememberedPhrase
    /\ autoClearTimeout' = autoClearTimeout
    /\ timers' = timers

\* C11: every step that ends an activation of generatePassword either
\* displays a password of the length that activation requested, next to its
\* normalized site, or leaves the password field, the displayed site, the
\* master-phrase field, the remembered phrase and the auto-clear timer
\* unchanged.
C11_AllOrNothing ==
    [][\A c \in calls : calls' = calls \ {c} => displays(c) \/ outputUntouched]_vars

\* Two derivations have ended, only the first request displayed a password,
\* and that password is still shown with its timer pending.
C11_Reached ==
    /\ requests = 2 /\ calls = {}
    /\ last # NoGeneration /\ last.id = 1
    /\ elements.generatedPassword = last.password
    /\ elements.masterPhrase # <<>>
    /\ autoClearTimeout \in timers

-----------------------------------------------------------------------------
(* C12: blank input is rejected before the derivation                       *)

\* C12: no activation of generatePassword reaches deriveBytes with a phrase
\* that hardenPhrase turned into the empty string or a site that
\* normalizeSite turned into the empty string.
C12_NoBlankDerivation ==
    \A c \in calls : c.hardenedPhrase # <<>> /\ c.normalizedSite # <<>>

-----------------------------------------------------------------------------
(* C13: one derivation at a time                                            *)

\* C13: at most one activation of generatePassword is suspended at
\* await deriveBytes at any time.
C13_OneDerivationInFlight == Cardinality(calls) <= 1

-----------------------------------------------------------------------------
(* C14: a forgotten phrase stays forgotten                                  *)
(* Sessions long enough to forget a phrase and check the box again while a  *)
(* derivation is pending.                                                   *)

NextForget ==
    \/ SetSite \/ SetMasterPhrase \/ ToggleRemember \/ ForgetNow \/ ClearAll
    \/ Submit \/ CtrlEnter \/ DeriveOk \/ DeriveFail

SpecForget == InitRemember /\ [][NextForget]_vars

\* C14: Forget Now and Clear All leave rememberedPhrase null and the remember
\* checkbox unchecked, and once one of them has run rememberedPhrase becomes
\* non-null again only by the completion of a generation that was requested
\* after it.
C14_ForgottenUntilNewGeneration ==
    [][/\ forgotten'.count # forgotten.count =>
              rememberedPhrase' = NoPhrase /\ ~elements'.rememberPhrase
       /\ forgotten.count > 0 /\ rememberedPhrase = NoPhrase /\ rememberedPhrase' # NoPhrase =>
              \E c \in calls : calls' = calls \ {c} /\ c.id > forgotten.requests]_vars

-----------------------------------------------------------------------------
(* C15: a displayed password is cleared by its timer                        *)
(* The event loop runs the callback of a pending setTimeout.                *)

SpecSessionTimed == SpecSession /\ WF_vars(TimerFire)

\* C15: whenever the password field holds a password the auto-clear timer
\* is pending, and every displayed password is eventually cleared: once the
\* user's interactions have ended the timer fires, and the field is empty
\* and the output section hidden.
C15_DisplayedThenCleared ==
    /\ [](elements.generatedPassword # <<>> => autoClearTimeout \in timers)
    /\ (elements.generatedPassword # <<>>)
           ~> (elements.generatedPassword = <<>> /\ elements.outputSection = "none")

\* A password was displayed and the timer, not Clear All, has cleared it.
C15_Reached ==
    /\ last # NoGeneration /\ forgotten.count = 0
    /\ elements.generatedPassword = <<>> /\ elements.outputSection = "none"
    /\ autoClearTimeout = NoTimer /\ timers = {}

-----------------------------------------------------------------------------
(* C16: without WebCrypto nothing is derived                                *)

\* C16: when window.crypto.subtle is unavailable the Generate button is
\* disabled, no listener is registered, no derivation is ever started and
\* no password is ever displayed.
C16_NoCryptoNoPassword ==
    ~cryptoOk =>
        /\ elements.generateBtnDisabled /\ ~listening
        /\ calls = {} /\ requests = 0
        /\ elements.generatedPassword = <<>> /\ elements.outputSection = "none"

\* Without WebCrypto the user has filled in the form and checked remember.
C16_Reached ==
    /\ ~cryptoOk
    /\ elements.site # <<>> /\ normalizePhrase(elements.masterPhrase) # <<>>
    /\ elements.rememberPhrase

-----------------------------------------------------------------------------
(* C17, C18: the order in which the words are consumed                      *)

\* Word number k (from 0) of a 64-byte sequence: byte 2k mod 64 is the high
\* byte, byte (2k + 1) mod 64 the low byte.
wordNumber(bytes, k) ==
    (bytes[((2 * k) % DERIVED_BYTES) + 1] * 256) + bytes[(((2 * k) + 1) % DERIVED_BYTES) + 1]

\* Positions 0..L-1 before the shuffle: position p holds the character that
\* word p selects, from pool p for p < m and from the combined pool after.
placedByWords(bytes, L, pools, combinedPool) ==
    SubSeq([p \in 1..L |->
               IF p <= Len(pools)
               THEN pools[p].chars[(wordNumber(bytes, p - 1) % Len(pools[p].chars)) + 1]
               ELSE combinedPool[(wordNumber(bytes, p - 1) % Len(combinedPool)) + 1]], 1, L)

\* Fisher-Yates from i down to 1: the swap for i uses word L + (L - 1 - i).
RECURSIVE fisherYates(_, _, _, _)
fisherYates(bytes, L, i, chars) ==
    IF i < 1 THEN chars
    ELSE LET j == wordNumber(bytes, L + (L - 1 - i)) % (i + 1)
         IN  the({fisherYates(bytes, L, i - 1, exchanged) :
                     exchanged \in {[p \in 1..L |-> IF p = i + 1 THEN chars[j + 1]
                                                    ELSE IF p = j + 1 THEN chars[i + 1]
                                                    ELSE chars[p]]}})

\* The order of the classes: upper, lower, digits, symbols.
classRank == [upper |-> 1, lower |-> 2, digits |-> 3, symbols |-> 4]

\* C17: for every 64-byte sequence, every setting of the checkboxes and every
\* L for which a password is returned, with m the number of enabled non-empty
\* pools: the password is what results when words 0..m-1 select the mandatory
\* characters of positions 0..m-1 in the order upper, lower, digits, symbols,
\* words m..L-1 fill positions m..L-1 from the combined pool, and words
\* L..2L-2 drive the swaps for i = L-1 down to 1 with j = word mod (i + 1);
\* exactly 2L - 1 words are consumed.
C17_WordOrder ==
    (Returned("generatePasswordFromBytes") /\ probe.out.ok) =>
        LET L == probe.args.length
            els == formWith(probe.args.boxes)
            placed == placedByWords(probe.args.derivedBytes, L, getCharacterPools(els),
                                    buildCharacterPool(els))
        IN  /\ \A a, b \in 1..Len(getCharacterPools(els)) :
                   a < b => classRank[getCharacterPools(els)[a].type]
                                < classRank[getCharacterPools(els)[b].type]
            /\ probe.out.words = (2 * L) - 1
            /\ probe.out.value = SubSeq(fisherYates(probe.args.derivedBytes, L, L - 1, placed), 1, L)

\* A password of four characters has been returned with the four classes
\* enabled (m = L: four mandatory words, no fill word, three swaps).
C17_Reached ==
    /\ Returned("generatePasswordFromBytes")
    /\ probe.args.length = 4
    /\ Cardinality(enabledClasses(probe.args.boxes)) = 4
    /\ probe.args.derivedBytes = bytePattern(1)
    /\ probe.out.ok /\ probe.out.words = 7

\* C18: in a run of generatePasswordFromBytes on 64 derived bytes that returns
\* a password, the cursor is 2k when word k is read, and that word is
\* 256 * bytes[2k mod 64] + bytes[(2k + 1) mod 64]: the first byte read is the
\* high-order byte, the high byte is never byte 63 (so byte 63 is never
\* paired with byte 0), and word k equals word k mod 32.  The run reads
\* more than 32 words, reusing derived bytes, exactly when L >= 17,
\* whatever classes are enabled.
C18_WordsOfBytes ==
    (Returned("generatePasswordFromBytes") /\ probe.out.ok) =>
        LET bytes == probe.args.derivedBytes
            half == DERIVED_BYTES \div 2
        IN  /\ \A k \in 0..(probe.out.words - 1) :
                   /\ nextWord(bytes, 2 * k)
                          = (256 * bytes[((2 * k) % DERIVED_BYTES) + 1])
                            + bytes[(((2 * k) + 1) % DERIVED_BYTES) + 1]
                   /\ (2 * k) % DERIVED_BYTES # DERIVED_BYTES - 1
                   /\ nextWord(bytes, 2 * k) = nextWord(bytes, 2 * (k % half))
            /\ (probe.out.words > half) <=> (probe.args.length >= 17)

\* A password of 17 characters has been returned with the digits alone
\* enabled: 33 words read, the last one from bytes 0 and 1 again.
C18_Reached ==
    /\ Returned("generatePasswordFromBytes")
    /\ probe.args.length = 17
    /\ enabledClasses(probe.args.boxes) = {"useDigits"}
    /\ probe.args.derivedBytes = bytePattern(2)
    /\ probe.out.ok /\ probe.out.words = 33

-----------------------------------------------------------------------------
(* C19: the seed of hardenPhrase                                            *)

\* (seed * 33) mod 2^32
times33(seed) ==
    LET l == seed.lo * 33
        h == (seed.hi * 33) + (l \div TwoTo16)
    IN  U32(h % TwoTo16, l % TwoTo16)

\* The reference recurrence over the first n characters of s:
\* seed0 = 5381, seed = ((seed * 33) XOR charCode) mod 2^32
RECURSIVE referenceSeed(_, _)
referenceSeed(s, n) ==
    IF n = 0 THEN U32(0, 5381)
    ELSE the({U32(product.hi, BitXor(product.lo, charCodeAt(s[n]))) :
                 product \in {times33(previous) : previous \in {referenceSeed(s, n - 1)}}})

\* C19: for every phrase hardened and every prefix of its normalization, the
\* seed the loop has computed after that prefix lies in 0..2^32-1 and equals
\* the reference recurrence seed0 = 5381, seed = ((seed * 33) XOR charCode)
\* mod 2^32; the hardened phrase returned is the one that the reference
\* seed of the whole normalized phrase gives.
C19_SeedIsReference ==
    Returned("hardenPhrase") =>
        \A i \in 1..2 :
            LET normalized == normalizePhrase(probe.args[i])
                reference == referenceSeed(normalized, Len(normalized))
            IN  /\ \A n \in 0..Len(normalized) :
                       LET seed == seedFrom(U32(0, 5381), normalized, 1, n)
                       IN  /\ seed.hi \in 0..(TwoTo16 - 1) /\ seed.lo \in 0..(TwoTo16 - 1)
                           /\ seed = referenceSeed(normalized, n)
                /\ normalized # <<>> =>
                       probe.out[i] = join(capitalizeWords(split(normalized, " "), reference), " ")
                                      \o suffixOf(reference)

\* "my iphone purchase" has been hardened: its seed, 4218556431, is above 2^31,
\* where ToInt32 makes the intermediate values negative.
C19_Reached ==
    /\ Returned("hardenPhrase")
    /\ probe.args[1] = <<"m","y"," ","i","p","h","o","n","e"," ","p","u","r","c","h","a","s","e">>
    /\ seedOf(normalizePhrase(probe.args[1])) = U32(64370, 4111)
    /\ probe.out[1] # <<>>

-----------------------------------------------------------------------------
(* C20: which words hardenPhrase capitalizes                                *)

\* The hardened phrase without its suffix, split into words again.
hardenedWords(hardened, seed) ==
    split(SubSeq(hardened, 1, Len(hardened) - Len(suffixOf(seed))), " ")

\* C20: for every phrase hardened whose normalization has n words, the
\* result has the same n words, changed as follows.  For n >= 2 the word at
\* index Seed mod n is uppercased, the word at index floor(Seed / n) mod n
\* is uppercased too when n > 2, and no other word is changed: one word for
\* n = 2, one or two for n > 2.  For n = 1 the first character of the word
\* is uppercased and the rest of it is unchanged.
C20_CapitalizedWords ==
    Returned("hardenPhrase") =>
        \A i \in 1..2 :
        \A normalized \in {normalizePhrase(probe.args[i])} :
        \A seed \in {referenceSeed(normalized, Len(normalized))} :
        \A words \in {split(normalized, " ")} :
        \A result \in {IF normalized = <<>> THEN <<>> ELSE hardenedWords(probe.out[i], seed)} :
            LET n == Len(words)
                first == uMod(seed, n)
                second == uMod(uFloorDiv(seed, n), n)
                chosen == IF n > 2 THEN {first, second} ELSE {first}
            IN  normalized # <<>> =>
                    /\ Len(result) = n
                    /\ n >= 2 =>
                           /\ \A k \in 1..n :
                                  result[k] = IF k - 1 \in chosen THEN toUpperCase(words[k])
                                              ELSE words[k]
                           /\ n = 2 => Cardinality(chosen) = 1
                           /\ Cardinality(chosen) \in 1..2
                    /\ n = 1 =>
                           /\ result[1][1] = toUpperChar(words[1][1])
                           /\ Tail(result[1]) = Tail(words[1])

\* hardenPhrase has returned "A b&2#" for "a b", where floor(Seed / 2) mod 2
\* names the second word and it stays lowercase, and "Tuesday" with its
\* first letter alone uppercased for "Tuesday".
C20_Reached ==
    /\ Returned("hardenPhrase")
    /\ probe.args = <<<<"a"," ","b">>, <<"T","u","e","s","d","a","y">>>>
    /\ probe.out[1] = <<"A"," ","b","&","2","#">>
    /\ SubSeq(probe.out[2], 1, 7) = <<"T","u","e","s","d","a","y">>
    /\ uMod(uFloorDiv(seedOf(<<"a"," ","b">>), 2), 2) = 1

-----------------------------------------------------------------------------
(* C21: what normalizeSite returns                                          *)

\* s without its first n characters
dropFirst(s, n) == [i \in 1..(Len(s) - n) |-> s[i + n]]

\* The input trimmed and lowercased, without one leading "http://" or
\* "https://" and then without one leading "www."
remainderOf(input) ==
    LET lowered == toLowerCase(trim(input))
        noScheme == IF Len(lowered) >= 8 /\ SubSeq(lowered, 1, 8) = <<"h","t","t","p","s",":","/","/">> THEN dropFirst(lowered, 8)
                    ELSE IF Len(lowered) >= 7 /\ SubSeq(lowered, 1, 7) = <<"h","t","t","p",":","/","/">> THEN dropFirst(lowered, 7)
                    ELSE lowered
    IN  IF Len(noScheme) >= 4 /\ SubSeq(noScheme, 1, 4) = <<"w","w","w",".">> THEN dropFirst(noScheme, 4)
        ELSE noScheme

Delimiters == {"/", "?", "#", ":"}

\* The prefix of s before its first delimiter, all of s when it has none
beforeDelimiter(s) ==
    LET at == {i \in 1..Len(s) : s[i] \in Delimiters}
    IN  IF at = {} THEN s ELSE SubSeq(s, 1, (CHOOSE i \in at : \A j \in at : i <= j) - 1)

\* C21: for every input, with r the input trimmed, lowercased and stripped of
\* one leading "http://" or "https://" and then of one leading "www.":
\* when r contains "." or "/" normalizeSite returns the prefix of r before
\* the first "/", "?", "#" or ":", which contains none of the four; when r
\* contains neither it returns r unchanged, with any ":", "?" or "#" in it.
C21_NormalizeSiteRule ==
    Returned("normalizeSite") =>
        \A i \in 1..2 :
        \A r \in {remainderOf(probe.args[i])} :
            IF (\E k \in 1..Len(r) : r[k] \in {".", "/"})
            THEN /\ probe.out[i] = beforeDelimiter(r)
                 /\ \A k \in 1..Len(probe.out[i]) : probe.out[i][k] \notin Delimiters
            ELSE probe.out[i] = r

\* normalizeSite has returned "example.org" for " http://WWW.Example.org:8080/a?b#c "
\* and "app?x#y", delimiters included, for "App?x#y".
C21_Reached ==
    /\ Returned("normalizeSite")
    /\ probe.args = <<<<" ","h","t","t","p",":","/","/","W","W","W",".","E","x","a","m","p","l","e",".","o","r","g",":","8","0","8","0","/","a","?","b","#","c"," ">>, <<"A","p","p","?","x","#","y">>>>
    /\ probe.out = <<<<"e","x","a","m","p","l","e",".","o","r","g">>, <<"a","p","p","?","x","#","y">>>>

-----------------------------------------------------------------------------
(* C22: the characters a password is made of                                *)

\* The characters of the class a checkbox enables.
classChars(box) ==
    IF box = "useUpper" THEN CHAR_SETS.upper
    ELSE IF box = "useLower" THEN CHAR_SETS.lower
    ELSE IF box = "useDigits" THEN CHAR_SETS.digits
    ELSE CHAR_SETS.symbols

\* The per-class pools, one after the other.
RECURSIVE concatenated(_)
concatenated(pools) == IF pools = <<>> THEN <<>> ELSE Head(pools).chars \o concatenated(Tail(pools))

\* C22: for every setting of the six checkboxes the combined pool of
\* buildCharacterPool is the concatenation, in the order upper, lower,
\* digits, symbols, of the per-class pools of getCharacterPools; every
\* character of a returned password belongs to an enabled class, and none
\* is one of O, 0, I, l, 1 when excludeAmbiguous is set.
C22_PoolsAgree ==
    Returned("generatePasswordFromBytes") =>
        LET els == formWith(probe.args.boxes)
            enabled == UNION {Range(classChars(b)) : b \in enabledClasses(probe.args.boxes)}
        IN  /\ buildCharacterPool(els) = concatenated(getCharacterPools(els))
            /\ probe.out.ok =>
                   /\ Range(probe.out.value) \subseteq enabled
                   /\ probe.args.boxes["excludeAmbiguous"] =>
                          Range(probe.out.value) \cap {"O", "0", "I", "l", "1"} = {}

\* With the digits alone enabled, excludeAmbiguous set and every derived byte
\* zero, the password of twelve characters repeats the first digit left: 2.
C22_Reached ==
    /\ Returned("generatePasswordFromBytes")
    /\ probe.args.length = MinLength
    /\ enabledClasses(probe.args.boxes) = {"useDigits"}
    /\ probe.args.boxes["excludeAmbiguous"] /\ ~probe.args.boxes["excludeProblematic"]
    /\ probe.out.ok /\ Range(probe.out.value) = {"2"}

-----------------------------------------------------------------------------
(* C23: the salts of two site/version contexts                              *)
(* Lines 402 and 423-426 of generatePassword, applied to two forms.         *)

SaltSites == {<<"a">>, <<"a",":",":","b">>, <<"G","i","t","H","u","b",".","c","o","m">>, <<"h","t","t","p","s",":","/","/","g","i","t","h","u","b",".","c","o","m","/","l","o","g","i","n">>}
SaltVersions == {<<"1">>, <<"c">>, <<"b",":",":","c">>}

InitSalt ==
    /\ Page(0, 0) /\ cryptoOk
    /\ probe \in {probeCall("salt", <<[site |-> s1, version |-> v1], [site |-> s2, version |-> v2]>>) :
                     s1, s2 \in SaltSites, v1, v2 \in SaltVersions}

\* normalizedSite and salt as generatePassword computes them from the fields
contextOf(fields) ==
    [normalizedSite |-> normalizeSite(trim(fields.site)),
     version |-> versionOf(fields),
     salt |-> saltOf(normalizeSite(trim(fields.site)), versionOf(fields))]

ConstructSalt ==
    /\ probe.fn = "salt" /\ ~probe.returned
    /\ probe' = [probe EXCEPT !.returned = TRUE,
                              !.out = <<contextOf(probe.args[1]), contextOf(probe.args[2])>>]
    /\ UNCHANGED uiVars

SpecSaltPairs == InitSalt /\ [][ConstructSalt]_vars

\* C23: two contexts that differ in the normalized site or in the version
\* have different salts.
C23_DistinctContextsDistinctSalts ==
    (/\ Returned("salt")
     /\ <<probe.out[1].normalizedSite, probe.out[1].version>>
            # <<probe.out[2].normalizedSite, probe.out[2].version>>)
    => probe.out[1].salt # probe.out[2].salt

-----------------------------------------------------------------------------
(* C24: the phrase a generation derives from                                *)

\* C24: every derivation requested while the master-phrase field is
\* non-empty is started with the phrase of that field.
C24_FieldPhraseUsed ==
    \A c \in calls : c.form.masterPhrase # <<>> => c.masterPhrase = c.form.masterPhrase

-----------------------------------------------------------------------------
(* C25: the settings a generation uses                                      *)

\* The form with the six checkboxes as they were when c was requested.
formAtRequest(c) ==
    [elements EXCEPT !.useUpper = c.form.boxes[1], !.useLower = c.form.boxes[2],
                     !.useDigits = c.form.boxes[3], !.useSymbols = c.form.boxes[4],
                     !.excludeAmbiguous = c.form.boxes[5], !.excludeProblematic = c.form.boxes[6]]

\* The password of the activation c, from the settings of its request alone.
passwordAtRequest(c) ==
    generatePasswordFromBytes(deriveBytes(c.hardenedPhrase, c.salt, c.iterations), c.length,
                              formAtRequest(c))

\* C25: the password a generation displays is the one that the site, phrase,
\* version, length, security level, classes and exclusion flags of the form
\* at the moment of its request give, whatever was changed while deriveBytes
\* was pending.
C25_SettingsOfRequest ==
    [][\A c \in calls :
           (calls' = calls \ {c} /\ last' # last) =>
               /\ passwordAtRequest(c).ok
               /\ elements'.generatedPassword = passwordAtRequest(c).value]_vars

-----------------------------------------------------------------------------
(* C26: Clear All and a derivation in flight                                *)

\* Nothing is displayed and no auto-clear timer is pending.
outputCleared(els, pending) ==
    els.generatedPassword = <<>> /\ els.outputSection = "none" /\ pending = {}

\* C26: once Clear All has run, the password field stays empty, the output
\* section hidden and no timer pending until a generation completes that
\* was requested after the last Clear All; no generation requested before
\* it displays its result.
C26_ClearedUntilNewGeneration ==
    [][forgotten.clearAlls > 0 =>
           /\ last' # last => last'.id > forgotten.clearedAt
           /\ (outputCleared(elements, timers) /\ ~outputCleared(elements', timers')) =>
                  (last' # last /\ last'.id > forgotten.clearedAt)]_vars

-----------------------------------------------------------------------------
(* C27: two requests that overlap                                           *)

\* C27: when a generation completes while the display shows the result of a
\* request issued after its own, the password and the normalized site of
\* that later request stay on display.
C27_LastRequestWins ==
    [][\A c \in calls :
           (/\ calls' = calls \ {c} /\ last' # last
            /\ last # NoGeneration /\ last.id > c.id
            /\ elements.generatedPassword = last.password) =>
               /\ elements'.generatedPassword = last.password
               /\ elements'.normalizedSite = elements.normalizedSite]_vars

-----------------------------------------------------------------------------
(* C28: the auto-clear timer and its notice                                 *)

\* C28: in every reachable state the auto-clear notice is visible exactly
\* when an auto-clear timer is pending, at most one timer is pending, and a
\* timer is pending only while a password is displayed.
C28_TimerInvariants ==
    /\ elements.autoClearNotice = "block" <=> timers # {}
    /\ Cardinality(timers) <= 1
    /\ timers # {} => elements.generatedPassword # <<>> /\ elements.outputSection = "block"

-----------------------------------------------------------------------------
(* C29: the remembered phrase and its checkbox                              *)
(* Sessions of generations, remember-checkbox changes, Forget Now and       *)
(* Clear All.                                                               *)

\* One edit more than Init allows: entering the site, entering the phrase and
\* checking the box take three edits, and the fourth unchecks the box, clicks
\* Forget Now or clicks Clear All once the phrase has been remembered.
InitRememberBox == PageLoaded(MaxRequests, MaxEdits + 1)

SpecRememberBox == InitRememberBox /\ [][NextForget]_vars

\* C29: in every reachable state rememberedPhrase is non-null only if the
\* remember checkbox is checked, and a generation that completes with the
\* checkbox unchecked leaves the master-phrase field empty and
\* rememberedPhrase null.
C29_RememberedOnlyIfChecked ==
    /\ [](rememberedPhrase # NoPhrase => elements.rememberPhrase)
    /\ [][(last' # last /\ ~elements.rememberPhrase) =>
              (elements'.masterPhrase = <<>> /\ rememberedPhrase' = NoPhrase)]_vars

\* A phrase was remembered and the box was then unchecked: the only request
\* was made with the box checked, four edits were made in all (site, phrase,
\* checking, unchecking), and the field still holds the phrase of the
\* request. The generation therefore completed with the box checked (a
\* completion with the box unchecked empties the field, and no edit was left
\* to fill it again), so the phrase was remembered when the box was
\* unchecked; now nothing is remembered.
C29_Reached ==
    /\ last # NoGeneration /\ requests = 1 /\ calls = {}
    /\ last.form.rememberPhrase /\ last.form.masterPhrase # <<>>
    /\ elements.masterPhrase = last.form.masterPhrase
    /\ elements.generatedPassword = last.password
    /\ (MaxEdits + 1) - budget.edits = 4 /\ forgotten.count = 0
    /\ ~elements.rememberPhrase /\ elements.rememberWarning = "none"
    /\ rememberedPhrase = NoPhrase

-----------------------------------------------------------------------------
(* C30: normalizing a normalized site                                       *)

\* C30: for every input s, normalizeSite(normalizeSite(s)) = normalizeSite(s),
\* so the displayed normalized site, entered again, gives the same salt.
C30_NormalizeSiteIdempotent ==
    Returned("normalizeSite") =>
        \A i \in 1..2 :
            /\ normalizeSite(probe.out[i]) = probe.out[i]
            /\ saltOf(normalizeSite(probe.out[i]), <<"1">>) = saltOf(probe.out[i], <<"1">>)

=============================================================================
